---- MODULE Spec2Model ----
(***************************************************************************)
(* Scheduling and auto-reply orchestration of the dashboard-automation     *)
(* backend: the due-post scheduler (scheduler_service.py), the bulk-batch  *)
(* scheduler (bulk_composer_scheduler.py) and the Instagram auto-reply     *)
(* engine (instagram_auto_reply_service.py).                               *)
(*                                                                         *)
(* Three specifications share one clock:                                   *)
(*   Spec      - the due-post scheduler over the ScheduledPost store       *)
(*   SpecBulk  - the bulk-batch scheduler over BulkComposerContent         *)
(*   SpecReply - the auto-reply engine over one AutomationRule             *)
(***************************************************************************)
EXTENDS Integers, Sequences, FiniteSets, TLC

VARIABLES
    now,            \* wall clock (datetime.utcnow / datetime.now)
    account,        \* the SocialAccount row the posts and the rule point at
    posts,          \* ScheduledPost store: id -> row
    duePc,          \* position of process_scheduled_posts: idle / running
    dueQueue,       \* due_posts not yet handed to execute_scheduled_instagram_post
    dueAtStart,     \* ids returned by the due query of the running tick
    sess,           \* the tick's ORM session: id -> row as the tick sees it
    submitCount,    \* per post: create_post / create_carousel_post calls so far
    calls,          \* external calls of the latest execute_scheduled_instagram_post
    processed,      \* posts handed to execute_scheduled_instagram_post by the running tick
    items,          \* BulkComposerContent store: id -> row
    bulkPc,         \* idle / tick (process_due_posts) / retry (retry_failed_posts)
    bulkQueue,      \* rows selected by the running pass and not yet published
    bulkAtStart,    \* due_posts of the running process_due_posts call
    procCount,      \* per item: publish_post invocations so far (saturating)
    rule,           \* the AUTO_REPLY AutomationRule row of the account
    comments,       \* the comments that exist on the platform
    dbTzAware,      \* whether last_execution_at comes back from the store tz-aware
    replied_comments, \* the engine's _replied_comments: comment id -> reply time
    replyPc,        \* idle / posts (loop over posts) / comments (loop over comments)
    postQueue,      \* shuffled_post_ids not yet visited
    total_replies,  \* total_replies of the running execution
    last_check,     \* last_check of the running execution
    commentQueue,   \* recent_comments not yet visited
    replies_for_post, \* replies_for_post of the post being processed
    max_replies,    \* max_replies handed to _process_post_comments
    execCount,      \* process_auto_replies invocations so far
    execReplyCalls, \* post_comment calls made by the running execution
    execTrace,      \* the running execution: comments that qualified and the time
                    \* when it started, whether a get_comments call has failed
    replyCalls,     \* per comment id: post_comment calls so far
    repliedOk,      \* comment ids with a successful post_comment call
    lastDecision,   \* the comment the reply decision was last taken for, the verdict,
                    \* and the reply text handed to post_comment
    running,        \* SchedulerService.running
    loopPc,         \* SchedulerService.start: off / posts / replies / sleep
    tickOutcome,    \* how the latest call made by SchedulerService.start ended
    is_running,     \* BulkComposerScheduler.is_running
    bulkLoopPc,     \* BulkComposerScheduler.start: off / delay / tick / sleep
    rules,          \* the AutomationRule table, in insertion order
    pendingToggles, \* toggle requests waiting for setup_auto_reply to return
    lastToggle,     \* the toggle request that was completed last
    lastRequest,    \* the latest schedule request and the status it was answered with
    created,        \* a create request: its instant, post_time and frequency, and
                    \* the next_execution computed for it
    ticks,          \* the process_scheduled_posts calls that may overlap (the
                    \* loop's and the trigger endpoint's): position, due_posts
                    \* left, the session's rows, the rows as loaded, the rows
                    \* to reload, and the outcome of the call in flight
    tasks,          \* the start() coroutines created so far, per scheduler:
                    \* none / delay / tick / sleep / done
    fallback,       \* a commenter name, the fallback reply written for it and
                    \* what _is_ai_response says about that reply
    rl              \* rate_limit: the holder of _lock, the timestamps kept per
                    \* function in _rate_limit_cache, and each coroutine's
                    \* position in the wrapper and the function it calls

dueVars == <<posts, duePc, dueQueue, dueAtStart, sess, submitCount, calls, processed>>

bulkVars == <<items, bulkPc, bulkQueue, bulkAtStart, procCount>>

replyVars == <<rule, comments, dbTzAware, replied_comments, replyPc, postQueue,
               total_replies, last_check, commentQueue, replies_for_post,
               max_replies, execCount, execReplyCalls, execTrace, replyCalls,
               repliedOk, lastDecision>>

loopVars == <<running, loopPc, tickOutcome, is_running, bulkLoopPc>>

extVars == <<created, ticks, tasks, fallback, rl>>

apiVars == <<rules, pendingToggles, lastToggle, lastRequest, extVars>>

(***************************************************************************)
(* Bounds and input sets                                                   *)
(***************************************************************************)
MaxTime == 1

PostIds == {1, 2}

ItemIds == {1, 2}

\* procCount stops counting here
MaxProc == 5

\* executions of the auto-reply engine in one behaviour
MaxExecs == 2

\* days the auto-reply clock runs for
MaxDays == 1

\* toggle requests in flight at the same time
MaxPending == 2

\* rows the AutomationRule table can hold
MaxRules == 3

\* scheduled_datetime of a new row: due at once, or after one clock step
SchedTimes == {0, 1}

\* None for an absent prompt / timestamp; a prompt is modelled by its length
None == -1

Min(a, b) == IF a < b THEN a ELSE b
Max(a, b) == IF a > b THEN a ELSE b

RECURSIVE Perms(_)
Perms(S) ==
    IF S = {} THEN {<<>>}
    ELSE UNION {{<<x>> \o q : q \in Perms(S \ {x})} : x \in S}

(***************************************************************************)
(* ScheduledPost rows                                                      *)
(***************************************************************************)
\* media columns a row can be created with, by post type; prompt is its length
MediaShapes ==
    {[post_type |-> "photo", image_url |-> i, media_urls |-> 0, video_url |-> "none", prompt |-> 50] :
        i \in {"none", "base64", "url"}}
    \cup
    {[post_type |-> "photo", image_url |-> "url", media_urls |-> 0, video_url |-> "none", prompt |-> n] :
        n \in {None, 0}}
    \cup
    {[post_type |-> "carousel", image_url |-> "none", media_urls |-> 0, video_url |-> "none", prompt |-> n] :
        n \in {50}}
    \cup
    {[post_type |-> "carousel", image_url |-> "none", media_urls |-> 3, video_url |-> "none", prompt |-> 50]}
    \cup
    {[post_type |-> "reel", image_url |-> "none", media_urls |-> 0, video_url |-> v, prompt |-> 50] :
        v \in {"none", "url"}}
    \cup
    {[post_type |-> "text", image_url |-> "none", media_urls |-> 0, video_url |-> "none", prompt |-> 50]}

\* carousels without a media list whose caption is long enough for a fourth
\* and a fifth generated image
LongCarouselShapes ==
    {[post_type |-> "carousel", image_url |-> "none", media_urls |-> 0, video_url |-> "none", prompt |-> n] :
        n \in {150, 250}}

\* social_account_id 1 is the account row; 0 refers to no row
PostShapes ==
    {[media |-> m, social_account_id |-> 1] : m \in MediaShapes}
    \cup
    {[media |-> [post_type |-> "photo", image_url |-> "url", media_urls |-> 0,
                 video_url |-> "none", prompt |-> 50],
      social_account_id |-> 0]}

NewPost(shape, st, when) ==
    [status |-> st, is_active |-> TRUE, platform |-> "instagram",
     post_type |-> shape.media.post_type, prompt |-> shape.media.prompt,
     image_url |-> shape.media.image_url, media_urls |-> shape.media.media_urls,
     video_url |-> shape.media.video_url,
     scheduled_datetime |-> when, social_account_id |-> shape.social_account_id,
     post_id |-> "none", last_executed |-> None]

AccountShapes ==
    {[is_connected |-> c, page_access_token |-> t, access_token |-> t,
      platform_user_id |-> "ig1", platform |-> "instagram"] :
        c \in BOOLEAN, t \in {"none", "token"}}

TerminalStatus == {"posted", "failed"}

(***************************************************************************)
(* execute_scheduled_instagram_post                                        *)
(***************************************************************************)
\* outcome of one external call: a success result, a failure result, a raise
CallResults == {"ok", "fail", "exc"}

\* a failure that is recorded in the status only
MarkFailedStatusOnly(post, t) == [post EXCEPT !.status = "failed"]

\* the statements status="failed"; is_active=False; last_executed=utcnow()
MarkFailed(post, t) ==
    [post EXCEPT !.status = "failed", !.is_active = FALSE, !.last_executed = t]

is_base64_image(data) == data = "base64"

\* one call of an external service: the image generator, the uploader with
\* the URL it returned, or the platform adapter with the media it is handed
Call(op, url, n) == [op |-> op, url |-> url, n |-> n]

GenerateCall == Call("generate_instagram_image_with_ai", "none", 0)

\* upload_result["url"] is there only when upload_result["success"]
UploadCall(up) ==
    Call("upload_image_with_instagram_transform",
         IF up = "ok" THEN "cloudinary_url" ELSE "none", 0)

\* a helper that uploads a placeholder before it asks the generator
generate_and_upload_image_eager(gen, up) ==
    [success |-> (gen = "ok" /\ up = "ok"),
     calls |-> <<UploadCall(up), GenerateCall>>]

\* generate_and_upload_image: every failure and raise becomes success=False;
\* the uploader is called only after a successful generation
generate_and_upload_image(gen, up) ==
    [success |-> (gen = "ok" /\ up = "ok"),
     calls |-> IF gen = "ok" THEN <<GenerateCall, UploadCall(up)>> ELSE <<GenerateCall>>]

GenUploadResults ==
    {generate_and_upload_image(g, u) : g \in CallResults, u \in CallResults}

\* generate_and_upload_video: not implemented, always success=False
generate_and_upload_video == [success |-> FALSE, calls |-> <<>>]

\* a carousel loop that always asks for three images
NumImagesThree(prompt) == 3

\* num_images, line 215
NumImages(prompt) == Min(5, Max(3, (prompt \div 100) + 3))

\* the carousel loop: the URLs collected and the calls made by n
\* generate-and-upload rounds
RECURSIVE CarouselUrls(_)
CarouselUrls(n) ==
    IF n = 0 THEN {[urls |-> 0, calls |-> <<>>]}
    ELSE {[urls |-> k.urls + (IF g.success THEN 1 ELSE 0), calls |-> k.calls \o g.calls] :
            k \in CarouselUrls(n - 1), g \in GenUploadResults}

\* Media resolution (lines 163-265).  A result is the row after resolution,
\* whether the function returned (row marked failed and committed), whether
\* a commit happened, and the external calls made.
ResolvePhoto(post, t) ==
    LET afterUpload ==
            IF post.image_url # "none" /\ is_base64_image(post.image_url)
            THEN {IF up = "ok"
                  THEN [row |-> [post EXCEPT !.image_url = "cloudinary_url"], ret |-> FALSE,
                        commit |-> TRUE, calls |-> <<UploadCall(up)>>]
                  ELSE [row |-> MarkFailed(post, t), ret |-> TRUE,
                        commit |-> TRUE, calls |-> <<UploadCall(up)>>] :
                  up \in CallResults}
            ELSE {[row |-> post, ret |-> FALSE, commit |-> FALSE, calls |-> <<>>]}
        afterGen(r) ==
            IF r.ret THEN {r}
            ELSE IF r.row.image_url = "none"
            THEN {IF g.success
                  THEN [row |-> [r.row EXCEPT !.image_url = "cloudinary_url"], ret |-> FALSE,
                        commit |-> r.commit, calls |-> r.calls \o g.calls]
                  ELSE [row |-> MarkFailed(r.row, t), ret |-> TRUE,
                        commit |-> TRUE, calls |-> r.calls \o g.calls] :
                  g \in GenUploadResults}
            ELSE {r}
    IN  UNION {afterGen(r) : r \in afterUpload}

ResolveCarousel(post, t) ==
    IF post.media_urls = 0
    THEN {IF k.urls >= 3
          THEN [row |-> [post EXCEPT !.media_urls = k.urls], ret |-> FALSE,
                commit |-> FALSE, calls |-> k.calls]
          ELSE [row |-> MarkFailed(post, t), ret |-> TRUE,
                commit |-> TRUE, calls |-> k.calls] :
          k \in CarouselUrls(NumImages(post.prompt))}
    ELSE {[row |-> post, ret |-> FALSE, commit |-> FALSE, calls |-> <<>>]}

ResolveReel(post, t) ==
    IF post.video_url = "none"
    THEN IF generate_and_upload_video.success
         THEN {[row |-> [post EXCEPT !.video_url = "cloudinary_url"], ret |-> FALSE,
                commit |-> FALSE, calls |-> generate_and_upload_video.calls]}
         ELSE {[row |-> MarkFailed(post, t), ret |-> TRUE,
                commit |-> TRUE, calls |-> generate_and_upload_video.calls]}
    ELSE {[row |-> post, ret |-> FALSE, commit |-> FALSE, calls |-> <<>>]}

has_media(post) ==
    CASE post.post_type = "photo" -> post.image_url # "none"
      [] post.post_type = "carousel" -> post.media_urls > 0
      [] post.post_type = "reel" -> post.video_url # "none"
      [] OTHER -> FALSE

ResolveMedia(post, t) ==
    LET resolved ==
            CASE post.post_type = "photo" -> ResolvePhoto(post, t)
              [] post.post_type = "carousel" -> ResolveCarousel(post, t)
              [] post.post_type = "reel" -> ResolveReel(post, t)
              [] OTHER -> {[row |-> post, ret |-> FALSE, commit |-> FALSE, calls |-> <<>>]}
    IN  {IF ~r.ret /\ ~has_media(r.row)
         THEN [row |-> MarkFailed(r.row, t), ret |-> TRUE, commit |-> TRUE, calls |-> r.calls]
         ELSE r : r \in resolved}

\* what the adapter's create_post / create_carousel_post can hand back
AdapterResults ==
    {"success_post_id", "success_creation_id", "success_no_id", "failure", "empty", "exc"}

AdapterSuccess(a) == a \in {"success_post_id", "success_creation_id", "success_no_id"}

\* result.get("post_id") or result.get("creation_id")
ResultPostId(a) ==
    CASE a = "success_post_id" -> "post_id"
      [] a = "success_creation_id" -> "creation_id"
      [] OTHER -> "none"

\* a submission whose failure is only logged: the row is left as it was
SubmitPostLogOnly(post, a, t) ==
    IF AdapterSuccess(a)
    THEN [post EXCEPT !.status = "posted", !.post_id = ResultPostId(a),
                      !.is_active = FALSE, !.last_executed = t]
    ELSE post

\* lines 288-335: the adapter call and the bookkeeping after it
SubmitPost(post, a, t) ==
    LET afterCall ==
            IF AdapterSuccess(a)
            THEN [post EXCEPT !.status = "posted", !.post_id = ResultPostId(a)]
            ELSE [post EXCEPT !.status = "failed"]
    IN  [afterCall EXCEPT !.is_active = FALSE, !.last_executed = t]

\* lines 279-286: credentials missing
MissingCredentials(post) == [post EXCEPT !.status = "failed"]

\* lines 337-340: the outer exception handler
OuterHandler(post) == [post EXCEPT !.status = "failed"]

\* an account lookup that always comes back with the account row
AccountFoundAlways(post) == TRUE

\* the SocialAccount row a post points at, if any
AccountFound(post) == post.social_account_id = 1

\* lines 290-314: the adapter operation chosen by post type, with its media
AdapterCall(post) ==
    CASE post.post_type = "photo" -> Call("create_post", post.image_url, 1)
      [] post.post_type = "carousel" -> Call("create_carousel_post", "none", post.media_urls)
      [] OTHER -> Call("create_post", post.video_url, 1)

\* an account check that fails the post, as the bulk path does
AccountUnavailableFails(r) ==
    [row |-> [r.row EXCEPT !.status = "failed"], commit |-> TRUE, submitted |-> FALSE,
     calls |-> r.calls]

\* lines 271-276: the account row is missing or not connected; the function
\* returns without an assignment or a commit
AccountUnavailable(r) ==
    [row |-> r.row, commit |-> r.commit, submitted |-> FALSE, calls |-> r.calls]

\* lines 267-335, for a row whose media is resolved
AccountAndSubmit(r, acct, t) ==
    IF ~AccountFound(r.row) \/ ~acct.is_connected
    THEN {AccountUnavailable(r)}
    ELSE IF acct.page_access_token = "none" \/ acct.platform_user_id = "none"
    THEN {[row |-> MissingCredentials(r.row), commit |-> TRUE, submitted |-> FALSE,
           calls |-> r.calls]}
    ELSE IF r.row.post_type \notin {"photo", "carousel", "reel"}
    THEN {[row |-> [r.row EXCEPT !.status = "failed"], commit |-> TRUE, submitted |-> FALSE,
           calls |-> r.calls]}
    ELSE {[row |-> SubmitPost(r.row, a, t), commit |-> TRUE, submitted |-> TRUE,
           calls |-> Append(r.calls, AdapterCall(r.row))] :
          a \in AdapterResults}

\* execute_scheduled_instagram_post: every result it can produce for a row
execute_scheduled_instagram_post(post, acct, t) ==
    IF post.prompt = None
    THEN {[row |-> OuterHandler(post), commit |-> TRUE, submitted |-> FALSE, calls |-> <<>>]}
    ELSE IF post.prompt = 0
    THEN {[row |-> MarkFailed(post, t), commit |-> TRUE, submitted |-> FALSE, calls |-> <<>>]}
    ELSE UNION {IF r.ret
                THEN {[row |-> r.row, commit |-> r.commit, submitted |-> FALSE,
                       calls |-> r.calls]}
                ELSE AccountAndSubmit(r, acct, t) :
                r \in ResolveMedia(post, t)}

(***************************************************************************)
(* process_scheduled_posts                                                 *)
(***************************************************************************)
\* a due query that filters on is_active and the time only
IsDueAnyStatus(post, t) ==
    /\ post.platform = "instagram"
    /\ post.scheduled_datetime <= t
    /\ post.is_active

\* a due query without the is_active filter
IsDueInactiveToo(post, t) ==
    /\ post.status \in {"scheduled", "ready"}
    /\ post.platform = "instagram"
    /\ post.scheduled_datetime # None
    /\ post.scheduled_datetime <= t

\* the due query, lines 76-81
IsDue(post, t) ==
    /\ post.status \in {"scheduled", "ready"}
    /\ post.platform = "instagram"
    /\ post.scheduled_datetime # None
    /\ post.scheduled_datetime <= t
    /\ post.is_active

\* a query that returns every active row
DueQueryAllActive(store, t) == {p \in DOMAIN store : store[p].is_active}

\* due_posts, lines 76-81
DueQuery(store, t) == {p \in DOMAIN store : IsDue(store[p], t)}

\* no tick is running
DueIdle ==
    /\ duePc = "idle"
    /\ dueQueue = <<>>
    /\ dueAtStart = {}
    /\ sess = posts
    /\ submitCount = [p \in PostIds |-> 0]
    /\ calls = <<>>
    /\ processed = <<>>

\* the store holds rows drawn from the given set
DueStore(rows) ==
    /\ posts \in [PostIds -> rows]
    /\ DueIdle

DueInit ==
    DueStore({NewPost(sh, st, w) :
                sh \in PostShapes, st \in {"scheduled", "ready"}, w \in SchedTimes})

\* lines 60-87: open a session and run the due query
TickStart ==
    /\ duePc = "idle"
    /\ duePc' = "running"
    /\ dueAtStart' = DueQuery(posts, now)
    /\ dueQueue' \in Perms(dueAtStart')
    /\ sess' = posts
    /\ calls' = <<>>
    /\ processed' = <<>>
    /\ UNCHANGED <<now, account, posts, submitCount>>

\* a loop that gives up on the rest of the tick once a post has failed
RemainingAfterAbort(queue, row) ==
    IF row.status = "failed" THEN <<>> ELSE Tail(queue)

\* lines 88-92: whatever the outcome for one post, the loop goes on to the next
RemainingAfter(queue, row) == Tail(queue)

\* lines 88-92: one round of the loop over due_posts
ExecutePost ==
    /\ duePc = "running"
    /\ dueQueue # <<>>
    /\ LET p == Head(dueQueue) IN
       \E r \in execute_scheduled_instagram_post(sess[p], account, now) :
          /\ sess' = [sess EXCEPT ![p] = r.row]
          /\ posts' = IF r.commit THEN sess' ELSE posts
          /\ submitCount' = [submitCount EXCEPT ![p] = @ + (IF r.submitted THEN 1 ELSE 0)]
          /\ calls' = r.calls
          /\ dueQueue' = RemainingAfter(dueQueue, r.row)
          /\ processed' = Append(processed, p)
    /\ UNCHANGED <<now, account, duePc, dueAtStart>>

\* lines 95-97: the loop is over, the session is closed
TickEnd ==
    /\ duePc = "running"
    /\ dueQueue = <<>>
    /\ duePc' = "idle"
    /\ dueAtStart' = {}
    /\ sess' = posts
    /\ calls' = <<>>
    /\ processed' = <<>>
    /\ UNCHANGED <<now, account, posts, dueQueue, submitCount>>

(***************************************************************************)
(* Environment: the clock and the account's connection state               *)
(***************************************************************************)
AdvanceClock ==
    /\ now < MaxTime
    /\ now' = now + 1

\* connect_instagram: the account is (re)connected with the token Graph returned
ConnectAccount ==
    \E tok \in {"none", "token"} :
        account' = [account EXCEPT !.is_connected = TRUE, !.page_access_token = tok,
                                   !.access_token = tok]

\* an expired token marks the account disconnected
DisconnectAccount ==
    /\ account.is_connected
    /\ account' = [account EXCEPT !.is_connected = FALSE]

(***************************************************************************)
(* Bulk-batch scheduler (bulk_composer_scheduler.py)                       *)
(***************************************************************************)
RetryCeiling == 3

NewItem(when, media) ==
    [status |-> "scheduled", scheduled_datetime |-> when, publish_attempts |-> 0,
     last_publish_attempt |-> None, media_file |-> media,
     facebook_post_id |-> "none", error_message |-> "none"]

\* what post_photo_to_facebook / post_text_to_facebook can hand back
FacebookResults == {"id", "no_id", "exc"}

\* publish_post: every row it can leave behind; each path ends in a commit
publish_post(post, acct, t) ==
    IF ~acct.is_connected
    THEN {[post EXCEPT !.status = "failed",
                       !.error_message = "Social account not connected"]}
    ELSE LET tracked == [post EXCEPT !.publish_attempts = @ + 1,
                                     !.last_publish_attempt = t]
         IN  {CASE res = "id" ->
                     [tracked EXCEPT !.status = "published",
                                     !.facebook_post_id = "id",
                                     !.error_message = "none"]
                [] res = "no_id" ->
                     [tracked EXCEPT !.status = "failed",
                                     !.error_message = "Facebook API returned no post ID"]
                [] OTHER ->
                     [tracked EXCEPT !.status = "failed",
                                     !.error_message = "exception"] :
              res \in FacebookResults}

\* the main loop's due query also takes failed rows
BulkIsDueOrFailed(post, t) ==
    /\ post.status \in {"scheduled", "failed"}
    /\ post.scheduled_datetime <= t

\* a due query that filters on the time only
BulkIsDueAnyStatus(post, t) == post.scheduled_datetime <= t

\* the due query, lines 48-51
BulkIsDue(post, t) ==
    /\ post.status = "scheduled"
    /\ post.scheduled_datetime <= t

\* the retry query without the attempts filter
RetryEligibleNoCeiling(post) ==
    post.status = "failed"

\* the retry query, lines 125-128
RetryEligible(post) ==
    /\ post.status = "failed"
    /\ post.publish_attempts < RetryCeiling

BulkStore(rows) ==
    /\ items \in [ItemIds -> rows]
    /\ bulkPc = "idle"
    /\ bulkQueue = <<>>
    /\ bulkAtStart = {}
    /\ procCount = [i \in ItemIds |-> 0]

BulkInit ==
    BulkStore({NewItem(w, m) : w \in SchedTimes, m \in BOOLEAN})

\* process_due_posts, lines 43-51: the due query
BulkTickStart ==
    /\ bulkPc = "idle"
    /\ bulkPc' = "tick"
    /\ bulkAtStart' = {i \in ItemIds : BulkIsDue(items[i], now)}
    /\ bulkQueue' \in Perms(bulkAtStart')
    /\ UNCHANGED <<now, account, items, procCount>>

\* a loop that leaves the rest of due_posts alone once an item has failed
DuePostsLeftAbort(queue, row) ==
    IF row.status = "failed" THEN <<>> ELSE Tail(queue)

\* lines 55-57: publish_post catches what it raises, the loop goes on
DuePostsLeft(queue, row) == Tail(queue)

\* process_due_posts, lines 55-57: one round of the loop
BulkPublish ==
    /\ bulkPc = "tick"
    /\ bulkQueue # <<>>
    /\ LET i == Head(bulkQueue) IN
       /\ \E row \in publish_post(items[i], account, now) :
             items' = [items EXCEPT ![i] = row]
       /\ procCount' = [procCount EXCEPT ![i] = Min(@ + 1, MaxProc)]
       /\ bulkQueue' = DuePostsLeft(bulkQueue, items'[i])
    /\ UNCHANGED <<now, account, bulkPc, bulkAtStart>>

\* retry_failed_posts, lines 122-128: the retry query
RetryStart ==
    /\ bulkPc = "idle"
    /\ bulkPc' = "retry"
    /\ bulkQueue' \in Perms({i \in ItemIds : RetryEligible(items[i])})
    /\ UNCHANGED <<now, account, items, bulkAtStart, procCount>>

\* retry_failed_posts, lines 133-136: reset to scheduled and publish again
RetryPublish ==
    /\ bulkPc = "retry"
    /\ bulkQueue # <<>>
    /\ LET i == Head(bulkQueue)
           reset == [items[i] EXCEPT !.status = "scheduled"]
       IN
       /\ \E row \in publish_post(reset, account, now) :
             items' = [items EXCEPT ![i] = row]
       /\ procCount' = [procCount EXCEPT ![i] = Min(@ + 1, MaxProc)]
    /\ bulkQueue' = Tail(bulkQueue)
    /\ UNCHANGED <<now, account, bulkPc, bulkAtStart>>

\* either pass returns once its list is exhausted
BulkPassEnd ==
    /\ bulkPc \in {"tick", "retry"}
    /\ bulkQueue = <<>>
    /\ bulkPc' = "idle"
    /\ bulkAtStart' = {}
    /\ UNCHANGED <<now, account, items, bulkQueue, procCount>>

(***************************************************************************)
(* Instagram auto-reply engine (instagram_auto_reply_service.py)           *)
(***************************************************************************)
\* Texts are sequences of characters.
UpperChars == <<"A", "B", "C", "D", "E", "F", "G", "H", "I", "J", "K", "L", "M",
                "N", "O", "P", "Q", "R", "S", "T", "U", "V", "W", "X", "Y", "Z">>

LowerChars == <<"a", "b", "c", "d", "e", "f", "g", "h", "i", "j", "k", "l", "m",
                "n", "o", "p", "q", "r", "s", "t", "u", "v", "w", "x", "y", "z">>

\* str.lower()
LowerChar(c) ==
    IF \E i \in 1..Len(UpperChars) : UpperChars[i] = c
    THEN LowerChars[CHOOSE i \in 1..Len(UpperChars) : UpperChars[i] = c]
    ELSE c

Lower(text) == [i \in 1..Len(text) |-> LowerChar(text[i])]

\* the Python test  needle in haystack
Contains(haystack, needle) ==
    \E i \in 0..(Len(haystack) - Len(needle)) :
        SubSeq(haystack, i + 1, i + Len(needle)) = needle

\* ai_indicators, lines 280-301
ai_indicators ==
    <<<<"t", "h", "a", "n", "k", "s", " ", "f", "o", "r", " ", "y", "o", "u", "r", " ", "c", "o", "m", "m", "e", "n", "t">>,
      <<"w", "e", " ", "a", "p", "p", "r", "e", "c", "i", "a", "t", "e", " ", "y", "o", "u", "r", " ", "e", "n", "g", "a", "g", "e", "m", "e", "n", "t">>,
      <<"t", "h", "a", "n", "k", " ", "y", "o", "u", " ", "f", "o", "r", " ", "y", "o", "u", "r", " ", "c", "o", "m", "m", "e", "n", "t">>,
      <<"w", "e", "'", "r", "e", " ", "g", "l", "a", "d", " ", "y", "o", "u">>,
      <<"t", "h", "a", "n", "k", "s", " ", "f", "o", "r", " ", "s", "h", "a", "r", "i", "n", "g">>,
      <<"w", "e", " ", "l", "o", "v", "e", " ", "h", "e", "a", "r", "i", "n", "g", " ", "f", "r", "o", "m", " ", "y", "o", "u">>,
      <<"t", "h", "a", "n", "k", "s", "!", " ", "w", "e", "'", "r", "e">>,
      <<"w", "e", "'", "r", "e", " ", "e", "x", "c", "i", "t", "e", "d">>,
      <<"y", "o", "u", " ", "c", "a", "n", " ", "f", "i", "n", "d", " ", "i", "t">>,
      <<"l", "e", "t", " ", "u", "s", " ", "k", "n", "o", "w", " ", "i", "f">>,
      <<"y", "o", "u", "'", "r", "e", " ", "w", "e", "l", "c", "o", "m", "e">>,
      <<"w", "e", " ", "a", "p", "p", "r", "e", "c", "i", "a", "t", "e", " ", "y", "o", "u", "r">>,
      <<"t", "h", "a", "n", "k", "s", " ", "f", "o", "r", " ", "t", "h", "e">>,
      <<"t", "h", "a", "n", "k", " ", "y", "o", "u", " ", "s", "o", " ", "m", "u", "c", "h">>,
      <<"w", "e", "'", "r", "e", " ", "s", "o", " ", "g", "l", "a", "d", " ", "y", "o", "u">>,
      <<"w", "e", " ", "l", "o", "v", "e", " ", "t", "h", "a", "t", " ", "y", "o", "u">>,
      <<"f", "e", "e", "l", " ", "f", "r", "e", "e", " ", "t", "o", " ", "r", "e", "a", "c", "h", " ", "o", "u", "t">>,
      <<"d", "o", "n", "'", "t", " ", "h", "e", "s", "i", "t", "a", "t", "e", " ", "t", "o", " ", "c", "o", "n", "t", "a", "c", "t">>,
      <<"w", "e", "'", "d", " ", "l", "o", "v", "e", " ", "t", "o", " ", "h", "e", "a", "r">>,
      <<"w", "e", "'", "r", "e", " ", "h", "e", "r", "e", " ", "t", "o", " ", "h", "e", "l", "p">>>>

\* ai_mention_patterns, lines 314-320
ai_mention_patterns ==
    <<<<"t", "h", "a", "n", "k", "s", " ", "f", "o", "r", " ", "y", "o", "u", "r", " ", "c", "o", "m", "m", "e", "n", "t">>,
      <<"w", "e", " ", "a", "p", "p", "r", "e", "c", "i", "a", "t", "e", " ", "y", "o", "u", "r">>,
      <<"t", "h", "a", "n", "k", " ", "y", "o", "u", " ", "f", "o", "r">>,
      <<"w", "e", "'", "r", "e", " ", "g", "l", "a", "d", " ", "y", "o", "u">>,
      <<"w", "e", " ", "l", "o", "v", "e", " ", "h", "e", "a", "r", "i", "n", "g">>>>

\* a classifier that compares the text as written, without lower()
is_ai_response_case_sensitive(message) ==
    IF message = <<>> THEN FALSE
    ELSE \/ \E k \in 1..Len(ai_indicators) : Contains(message, ai_indicators[k])
         \/ /\ Contains(message, <<"@">>)
            /\ \E k \in 1..Len(ai_mention_patterns) :
                  Contains(message, ai_mention_patterns[k])

\* _is_ai_response, lines 271-328
_is_ai_response(message) ==
    IF message = <<>> THEN FALSE
    ELSE LET message_lower == Lower(message) IN
         \/ \E k \in 1..Len(ai_indicators) : Contains(message_lower, ai_indicators[k])
         \/ /\ Contains(message, <<"@">>)
            /\ \E k \in 1..Len(ai_mention_patterns) :
                  Contains(message_lower, ai_mention_patterns[k])

\* comment texts the platform hands back
TextNice == <<"N", "i", "c", "e", " ", "p", "i", "c">>

TextShout == <<"T", "H", "A", "N", "K", "S", " ", "F", "O", "R", " ", "S", "H", "A", "R", "I", "N", "G">>

TextMention == <<"@", "i", "g", " ", "T", "h", "a", "n", "k", " ", "y", "o", "u", " ", "f", "o", "r", " ", "t", "h", "i", "s">>

TextThanks == <<"T", "h", "a", "n", "k", " ", "y", "o", "u", " ", "f", "o", "r", " ", "t", "h", "i", "s">>

TextEmpty == <<>>

CommentTexts == {TextNice, TextShout, TextMention, TextThanks, TextEmpty}

\* _is_ai_response tabulated over the texts in use
AiResponse == [t \in CommentTexts |-> _is_ai_response(t)]

\* time is counted in units of ten minutes
TenMinutes == 1

Hours24 == 144

ClockSteps == {Hours24 \div 2, Hours24}

MaxRepliesPerExecution == 3

FetchLimit == 25

CommentIds == {"c1", "c2", "c3", "c4", "c5", "c6", "c7", "c8"}

\* timestamp: how the platform reports the creation time - with an offset
\* (aware), without one (naive), not at all (none), or unparseable (garbage)
CommentPool ==
    {[id |-> "c1", post |-> "p1", from_id |-> "u1", text |-> TextNice,
      timestamp |-> "aware", created |-> 0],
     [id |-> "c2", post |-> "p1", from_id |-> "ig1", text |-> TextNice,
      timestamp |-> "aware", created |-> 0],
     [id |-> "c3", post |-> "p1", from_id |-> "u1", text |-> TextShout,
      timestamp |-> "none", created |-> 0],
     [id |-> "c4", post |-> "p2", from_id |-> "u2", text |-> TextEmpty,
      timestamp |-> "none", created |-> 0],
     [id |-> "c5", post |-> "p2", from_id |-> "u2", text |-> TextMention,
      timestamp |-> "garbage", created |-> Hours24 \div 2],
     [id |-> "c6", post |-> "p1", from_id |-> "u2", text |-> TextThanks,
      timestamp |-> "naive", created |-> Hours24 \div 2]}

\* a busy pair of posts: strangers' comments only, two on p1 and three on p2
CommentCrowd ==
    {c \in CommentPool : c.id \in {"c1", "c4", "c6"}}
    \cup
    {[id |-> "c7", post |-> "p2", from_id |-> "u1", text |-> TextNice,
      timestamp |-> "none", created |-> 0],
     [id |-> "c8", post |-> "p2", from_id |-> "u2", text |-> TextNice,
      timestamp |-> "none", created |-> 0]}

\* what can be on the platform: the mixed pool, the busy posts, one stranger's
\* comment next to one of the account's own, or nothing
CommentSets ==
    {CommentPool, CommentCrowd, {c \in CommentPool : c.id \in {"c1", "c2"}}, {}}

NewRule(active, selected) ==
    [is_active |-> active, selected_instagram_post_ids |-> selected,
     last_execution_at |-> None, success_count |-> 0, error_count |-> 0]

RuleShapes ==
    {NewRule(a, sel) : a \in BOOLEAN, sel \in {<<>>, <<"p1">>, <<"p1", "p2">>}}

Range(f) == {f[i] : i \in DOMAIN f}

\* an owner test that never matches
IsOwnCommentNever(commenter_id, instagram_user_id) == FALSE

\* commenter_id == instagram_user_id, lines 196 and 249
IsOwnComment(commenter_id, instagram_user_id) == commenter_id = instagram_user_id

\* lines 159-178: the watermark filter; comparing an aware with a naive
\* datetime raises, and the handler includes the comment
IsRecent(c, check) ==
    CASE c.timestamp = "none" -> TRUE
      [] c.timestamp = "garbage" -> TRUE
      [] OTHER ->
           IF (c.timestamp = "aware") # check.aware
           THEN TRUE
           ELSE c.created > check.t

\* _has_replied_to_comment, lines 342-352: the verdict
_has_replied_to_comment(cache, id, t) ==
    cache[id] # None /\ (t - cache[id] < Hours24)

\* _has_replied_to_comment, lines 347-349: an expired entry is deleted
CacheAfterCheck(cache, id, t) ==
    IF cache[id] # None /\ ~(t - cache[id] < Hours24)
    THEN [cache EXCEPT ![id] = None]
    ELSE cache

\* _should_reply_to_comment, lines 241-265
_should_reply_to_comment(c, instagram_user_id, cache, t) ==
    /\ ~IsOwnComment(c.from_id, instagram_user_id)
    /\ ~AiResponse[c.text]
    /\ ~_has_replied_to_comment(cache, c.id, t)

\* get_comments: what the platform shows for a post at time t
VisibleComments(post, t) == {c \in comments : c.post = post /\ c.created <= t}

\* no execution is running
IdleTrace == [qualifying |-> 0, started |-> 0, fetch_failed |-> FALSE]

\* The comments an execution that starts now has to answer: on a selected
\* post, later than the watermark of line 88 (or without a timestamp that can
\* be read, lines 170-178), not the account's own (line 196), not AI text
\* (line 254), not in the replied cache (line 259).
QualifyingComments ==
    LET watermark == IF rule.last_execution_at # None
                     THEN rule.last_execution_at
                     ELSE now - TenMinutes
    IN  {c \in comments :
            /\ c.post \in Range(rule.selected_instagram_post_ids)
            /\ c.created <= now
            /\ c.timestamp \in {"none", "garbage"} \/ c.created > watermark
            /\ c.from_id # account.platform_user_id
            /\ ~AiResponse[c.text]
            /\ ~(replied_comments[c.id] # None /\ now - replied_comments[c.id] < Hours24)}

ReplyIdleLocals ==
    /\ postQueue = <<>>
    /\ total_replies = 0
    /\ last_check = [t |-> 0, aware |-> FALSE]
    /\ commentQueue = <<>>
    /\ replies_for_post = 0
    /\ max_replies = 0
    /\ execReplyCalls = 0
    /\ execTrace = IdleTrace

ReplyInit ==
    /\ rule \in RuleShapes
    /\ comments \in CommentSets
    /\ dbTzAware \in BOOLEAN
    /\ replied_comments = [id \in CommentIds |-> None]
    /\ replyPc = "idle"
    /\ ReplyIdleLocals
    /\ execCount = 0
    /\ replyCalls = [id \in CommentIds |-> 0]
    /\ repliedOk = {}
    /\ lastDecision = [id |-> "none", verdict |-> "none", reply |-> "none"]

\* guards that let a rule without selected posts through
PassesGuardsAnySelection ==
    /\ rule.is_active
    /\ account.platform = "instagram"
    /\ account.is_connected
    /\ account.access_token # "none"

\* lines 29-42 (active rules of Instagram accounts) and 70-95 (connected
\* account, selected posts, access token)
PassesGuards ==
    /\ rule.is_active
    /\ account.platform = "instagram"
    /\ account.is_connected
    /\ rule.selected_instagram_post_ids # <<>>
    /\ account.access_token # "none"

\* process_auto_replies (lines 28-57) up to the post loop of
\* _process_rule_auto_replies (lines 64-103)
ReplyStart ==
    /\ replyPc = "idle"
    /\ execCount < MaxExecs
    /\ execCount' = execCount + 1
    /\ execReplyCalls' = 0
    /\ execTrace' = [qualifying |-> Cardinality(QualifyingComments), started |-> now,
                     fetch_failed |-> FALSE]
    /\ IF PassesGuards
       THEN /\ replyPc' = "posts"
            /\ postQueue' \in Perms(Range(rule.selected_instagram_post_ids))
            /\ total_replies' = 0
            /\ last_check' = IF rule.last_execution_at # None
                             THEN [t |-> rule.last_execution_at, aware |-> dbTzAware]
                             ELSE [t |-> now - TenMinutes, aware |-> FALSE]
       ELSE UNCHANGED <<replyPc, postQueue, total_replies, last_check>>
    /\ UNCHANGED <<now, account, rule, comments, dbTzAware, replied_comments,
                   commentQueue, replies_for_post, max_replies, replyCalls,
                   repliedOk, lastDecision>>

\* a budget that is not reduced by the replies already made
RemainingBudgetFull(total) == MaxRepliesPerExecution

\* line 118: max_replies handed to _process_post_comments
RemainingBudget(total) == MaxRepliesPerExecution - total

\* lines 105-119 and 144-180: the next post, its comments, the watermark filter
ReplyFetch ==
    /\ replyPc = "posts"
    /\ postQueue # <<>>
    /\ total_replies < MaxRepliesPerExecution
    /\ \E fetch \in CallResults :
         /\ execTrace' = [execTrace EXCEPT !.fetch_failed = @ \/ fetch # "ok"]
         /\ IF fetch = "ok" /\ VisibleComments(Head(postQueue), now) # {}
            THEN \E order \in Perms(VisibleComments(Head(postQueue), now)) :
                   LET comments_result == SubSeq(order, 1, Min(FetchLimit, Len(order)))
                       recent(c) == IsRecent(c, last_check)
                   IN  /\ commentQueue' = SelectSeq(comments_result, recent)
                       /\ replies_for_post' = 0
                       /\ max_replies' = RemainingBudget(total_replies)
                       /\ replyPc' = "comments"
                       /\ UNCHANGED postQueue
            ELSE /\ postQueue' = Tail(postQueue)
                 /\ UNCHANGED <<commentQueue, replies_for_post, max_replies, replyPc>>
    /\ UNCHANGED <<now, account, rule, comments, dbTzAware, replied_comments,
                   total_replies, last_check, execCount, execReplyCalls, replyCalls,
                   repliedOk, lastDecision>>

\* a marking that is forgotten
MarkNothing(cache, id, t) == cache

\* _mark_comment_as_replied, lines 358-363
_mark_comment_as_replied(cache, id, t) == [cache EXCEPT ![id] = t]

\* _generate_ai_reply, lines 480-499: the generated content, or the fixed
\* thank-you text when the generator reports a failure or raises
_generate_ai_reply(gen) == IF gen = "ok" THEN "generated" ELSE "fallback"

\* _generate_and_post_reply, lines 375-435: the reply is generated (or the
\* fallback text is used) and post_comment is called
GenerateAndPostReply(c) ==
    \E gen \in CallResults, res \in CallResults :
        /\ lastDecision' = [id |-> c.id, verdict |-> "reply", reply |-> _generate_ai_reply(gen)]
        /\ replyCalls' = [replyCalls EXCEPT ![c.id] = @ + 1]
        /\ execReplyCalls' = execReplyCalls + 1
        /\ IF res = "ok"
           THEN /\ replied_comments' =
                      _mark_comment_as_replied(
                          CacheAfterCheck(replied_comments, c.id, now), c.id, now)
                /\ rule' = [rule EXCEPT !.success_count = @ + 1]
                /\ repliedOk' = repliedOk \cup {c.id}
           ELSE /\ replied_comments' = CacheAfterCheck(replied_comments, c.id, now)
                /\ rule' = [rule EXCEPT !.error_count = @ + 1]
                /\ UNCHANGED repliedOk

\* lines 184-218: one round of the loop over recent_comments
ReplyDecide ==
    /\ replyPc = "comments"
    /\ commentQueue # <<>>
    /\ replies_for_post < max_replies
    /\ LET c == Head(commentQueue) IN
       IF IsOwnComment(c.from_id, account.platform_user_id)
       THEN /\ lastDecision' = [id |-> c.id, verdict |-> "own", reply |-> "none"]
            /\ UNCHANGED <<rule, replied_comments, replies_for_post, execReplyCalls,
                           replyCalls, repliedOk>>
       ELSE IF _should_reply_to_comment(c, account.platform_user_id, replied_comments, now)
       THEN /\ GenerateAndPostReply(c)
            /\ replies_for_post' = replies_for_post + 1
       ELSE /\ lastDecision' = [id |-> c.id, verdict |-> "skip", reply |-> "none"]
            /\ replied_comments' =
                  IF AiResponse[c.text] THEN replied_comments
                  ELSE CacheAfterCheck(replied_comments, c.id, now)
            /\ UNCHANGED <<rule, replies_for_post, execReplyCalls, replyCalls, repliedOk>>
    /\ commentQueue' = Tail(commentQueue)
    /\ UNCHANGED <<now, account, comments, dbTzAware, replyPc, postQueue,
                   total_replies, last_check, max_replies, execCount, execTrace>>

\* lines 185-187, 220 and 120: the comment loop ends, the count is added up
ReplyPostDone ==
    /\ replyPc = "comments"
    /\ commentQueue = <<>> \/ replies_for_post >= max_replies
    /\ total_replies' = total_replies + replies_for_post
    /\ postQueue' = Tail(postQueue)
    /\ commentQueue' = <<>>
    /\ replies_for_post' = 0
    /\ max_replies' = 0
    /\ replyPc' = "posts"
    /\ UNCHANGED <<now, account, rule, comments, dbTzAware, replied_comments,
                   last_check, execCount, execReplyCalls, execTrace, replyCalls,
                   repliedOk, lastDecision>>

\* an execution that leaves the rule row as it found it
ExecutionNotStamped(r, t) == r

\* lines 125-127: rule.last_execution_at = datetime.utcnow(); db.commit()
ExecutionStamped(r, t) == [r EXCEPT !.last_execution_at = t]

\* lines 106-108 and 122-128: the post loop ends, the watermark is written
ReplyFinish ==
    /\ replyPc = "posts"
    /\ postQueue = <<>> \/ total_replies >= MaxRepliesPerExecution
    /\ rule' = ExecutionStamped(rule, now)
    /\ replyPc' = "idle"
    /\ postQueue' = <<>>
    /\ total_replies' = 0
    /\ last_check' = [t |-> 0, aware |-> FALSE]
    /\ execReplyCalls' = 0
    /\ execTrace' = IdleTrace
    /\ UNCHANGED <<now, account, comments, dbTzAware, replied_comments, commentQueue,
                   replies_for_post, max_replies, execCount, replyCalls, repliedOk, lastDecision>>

\* the clock of the auto-reply engine moves in half days
ReplyAdvanceClock ==
    \E d \in ClockSteps :
        /\ now + d <= MaxDays * Hours24
        /\ now' = now + d

(***************************************************************************)
(* API requests (api/social_media.py)                                      *)
(***************************************************************************)
\* SocialAccount.id of the Instagram account and of the user's Facebook page
InstagramAccountId == 1

FacebookAccountId == 2

\* selected posts a toggle request can carry
ToggleSelections == {<<>>, <<"p1">>}

ToggleRequests ==
    {[account |-> a, enabled |-> e, selected |-> sel] :
        a \in {InstagramAccountId, FacebookAccountId}, e \in BOOLEAN, sel \in ToggleSelections}

\* lines 757-769 and 3020-3034: the row a toggle creates
NewRuleRow(account_id, enabled, selected) ==
    [social_account_id |-> account_id, rule_type |-> "AUTO_REPLY",
     rule |-> NewRule(enabled, selected)]

\* a lookup that finds nothing
FindRuleNever(table, account_id) == 0

\* lines 730-734 and 2993-2997: .first() of the rule lookup, 0 for no row
FindRule(table, account_id) ==
    LET hits == {i \in 1..Len(table) :
                    /\ table[i].social_account_id = account_id
                    /\ table[i].rule_type = "AUTO_REPLY"}
    IN  IF hits = {} THEN 0 ELSE CHOOSE i \in hits : \A j \in hits : i <= j

\* lines 735-773 and 2998-3037: update the row found, or add a new one
UpsertRule(table, req) ==
    LET i == FindRule(table, req.account) IN
    IF i # 0
    THEN [table EXCEPT ![i].rule.is_active = req.enabled,
                       ![i].rule.selected_instagram_post_ids = req.selected]
    ELSE Append(table, NewRuleRow(req.account, req.enabled, req.selected))

\* toggle_instagram_auto_reply, lines 2925-2990: the account and its token are
\* checked, then the handler waits for setup_auto_reply
toggle_instagram_auto_reply ==
    \E req \in ToggleRequests :
        /\ req.account = InstagramAccountId
        /\ account.page_access_token # "none"
        /\ req \notin pendingToggles
        /\ Cardinality(pendingToggles) < MaxPending
        /\ pendingToggles' = pendingToggles \cup {req}
        /\ UNCHANGED <<rules, lastToggle, lastRequest, extVars>>

\* toggle_auto_reply, lines 681-726: the Facebook page is looked up, then the
\* handler waits for setup_auto_reply
toggle_auto_reply ==
    \E req \in ToggleRequests :
        /\ req.account = FacebookAccountId
        /\ req \notin pendingToggles
        /\ Cardinality(pendingToggles) < MaxPending
        /\ pendingToggles' = pendingToggles \cup {req}
        /\ UNCHANGED <<rules, lastToggle, lastRequest, extVars>>

\* lines 729-773 and 2992-3037: setup_auto_reply is back; a raise ends the
\* request, anything else is followed by the lookup, the write and the commit
ToggleComplete ==
    \E req \in pendingToggles, setup \in CallResults :
        /\ pendingToggles' = pendingToggles \ {req}
        /\ IF setup = "exc"
           THEN UNCHANGED <<rules, lastToggle>>
           ELSE /\ Len(rules) < MaxRules
                /\ rules' = UpsertRule(rules, req)
                /\ lastToggle' = req
        /\ UNCHANGED <<lastRequest, extVars>>

\* the active schedules of an account
ExistingActiveNone(store, account_id) == {}

\* existing_active, lines 2335-2339
ExistingActive(store, account_id) ==
    {p \in DOMAIN store : store[p].social_account_id = account_id /\ store[p].is_active}

\* lines 2380-2388: the row create_scheduled_post adds; it sets neither a
\* platform nor a scheduled_datetime
CreatedPost(account_id) ==
    [NewPost([media |-> [post_type |-> "photo", image_url |-> "none", media_urls |-> 0,
                         video_url |-> "none", prompt |-> 50],
              social_account_id |-> account_id], "scheduled", None)
        EXCEPT !.platform = "none"]

Request(op, account_id, code) == [op |-> op, account |-> account_id, status |-> code]

\* the id the store gives to a new row
FreeIds(store) == PostIds \ DOMAIN store

\* create_scheduled_post, lines 2302-2415; no social_account_id in the
\* request (0) stands for the user's Facebook account
create_scheduled_post ==
    /\ \E requested \in {0, InstagramAccountId, FacebookAccountId} :
           LET social_account_id == IF requested = 0 THEN FacebookAccountId ELSE requested IN
           IF ExistingActive(posts, social_account_id) # {}
           THEN /\ lastRequest' = Request("create", social_account_id, 400)
                /\ UNCHANGED <<posts, sess>>
           ELSE /\ FreeIds(posts) # {}
                /\ LET id == CHOOSE i \in FreeIds(posts) : \A j \in FreeIds(posts) : i <= j IN
                   posts' = [p \in DOMAIN posts \cup {id} |->
                               IF p = id THEN CreatedPost(social_account_id) ELSE posts[p]]
                /\ sess' = posts'
                /\ lastRequest' = Request("create", social_account_id, 200)
    /\ UNCHANGED <<duePc, dueQueue, dueAtStart, submitCount, calls, processed, rules, pendingToggles, lastToggle, extVars>>

\* delete_scheduled_post, lines 2417-2456
delete_scheduled_post ==
    /\ \E schedule_id \in PostIds :
           IF schedule_id \notin DOMAIN posts
           THEN /\ lastRequest' = Request("delete", 0, 404)
                /\ UNCHANGED <<posts, sess>>
           ELSE /\ posts' = [p \in DOMAIN posts \ {schedule_id} |-> posts[p]]
                /\ sess' = posts'
                /\ lastRequest' = Request("delete", posts[schedule_id].social_account_id, 200)
    /\ UNCHANGED <<duePc, dueQueue, dueAtStart, submitCount, calls, processed, rules, pendingToggles, lastToggle, extVars>>

\* deactivate_scheduled_post, lines 2458-2500
deactivate_scheduled_post ==
    /\ \E schedule_id \in PostIds :
           IF schedule_id \notin DOMAIN posts
           THEN /\ lastRequest' = Request("deactivate", 0, 404)
                /\ UNCHANGED <<posts, sess>>
           ELSE /\ posts' = [posts EXCEPT ![schedule_id].is_active = FALSE]
                /\ sess' = posts'
                /\ lastRequest' = Request("deactivate", posts[schedule_id].social_account_id, 200)
    /\ UNCHANGED <<duePc, dueQueue, dueAtStart, submitCount, calls, processed, rules, pendingToggles, lastToggle, extVars>>

(***************************************************************************)
(* The execution time of a new schedule (create_scheduled_post)            *)
(***************************************************************************)
\* datetime.timedelta, in seconds
timedelta(weeks, days, minutes) == (((weeks * 7 + days) * 24) * 60 + minutes) * 60

\* line 2373: the two hours of the test shortcut, in seconds
TwoHours == 7200

Frequencies == {"daily", "weekly", "monthly"}

\* the readings of datetime.utcnow(), in seconds after midnight: on a full
\* minute, just before and just after one, and across the day
ClockReadings ==
    {0, 1, 59, 60, 61, 3599, 3600, 7199, 7200, 7201, 35999, 36000, 36001,
     43200, 79140, 79199, 79200, 79201, 86340, 86399}

\* the post_time strings that parse and that datetime.replace accepts
PostTimes == [hour : 0..23, minute : 0..59]

\* line 2361: now.replace(hour=hour, minute=minute, second=0, microsecond=0);
\* the date of now is day 0
TodayAt(hour, minute) == (hour * 60 + minute) * 60

\* a test that lets the very instant of the request pass as still ahead
AlreadyPassedStrict(next_exec, t) == next_exec < t

\* line 2364: next_exec <= now
AlreadyPassed(next_exec, t) == next_exec <= t

\* lines 2364-2371: the time that has passed today moves by one period
NextPeriod(next_exec, t, frequency) ==
    IF AlreadyPassed(next_exec, t)
    THEN CASE frequency = "daily" -> next_exec + timedelta(0, 1, 0)
           [] frequency = "weekly" -> next_exec + timedelta(1, 0, 0)
           [] frequency = "monthly" -> next_exec + timedelta(0, 30, 0)
           [] OTHER -> next_exec
    ELSE next_exec

\* lines 2373-2377: a time more than two hours away is replaced by one
\* minute from now
TestShortcut(next_exec, t) ==
    IF next_exec - t > TwoHours THEN t + timedelta(0, 0, 1) ELSE next_exec

\* lines 2360-2377: the value stored in next_execution
next_exec(t, hour, minute, frequency) ==
    TestShortcut(NextPeriod(TodayAt(hour, minute), t, frequency), t)

NewRequest(t, post_time, frequency) ==
    [now |-> t, hour |-> post_time.hour, minute |-> post_time.minute,
     frequency |-> frequency, next_execution |-> None]

\* lines 2347-2388: the handler computes next_execution for the request and
\* stores it with the new row
CalculateNextExecution ==
    /\ created.next_execution = None
    /\ created' = [created EXCEPT
                      !.next_execution =
                          next_exec(created.now, created.hour, created.minute,
                                    created.frequency)]
    /\ UNCHANGED <<ticks, tasks, fallback, rl>>

(***************************************************************************)
(* Overlapping process_scheduled_posts calls (loop tick, trigger_scheduler)*)
(***************************************************************************)
\* SchedulerService.start (line 46) and trigger_scheduler (line 2512) both
\* call process_scheduled_posts, each call with a session of its own
TickNames == {"loop", "trigger"}

NoOutcome == [row |-> None, commit |-> FALSE, submitted |-> FALSE, calls |-> <<>>]

IdleTick ==
    [pc |-> "idle", queue |-> <<>>, sess |-> <<>>, loaded |-> <<>>, expired |-> {},
     outcome |-> NoOutcome]

\* db.commit(): the columns the session changed since it loaded a row are
\* written to the store, the other columns of the store stay as they are
Flush(store, sessRows, loadedRows) ==
    [q \in DOMAIN store |->
        [f \in DOMAIN store[q] |->
            IF sessRows[q][f] # loadedRows[q][f] THEN sessRows[q][f] ELSE store[q][f]]]

\* lines 58-86: the session is opened and the due query is run
OverlapTickStart(k) ==
    /\ ticks[k].pc = "idle"
    /\ \E order \in Perms(DueQuery(posts, now)) :
          ticks' = [ticks EXCEPT ![k] = [pc |-> "running", queue |-> order, sess |-> posts,
                                         loaded |-> posts, expired |-> {},
                                         outcome |-> NoOutcome]]
    /\ UNCHANGED <<posts, submitCount>>

\* lines 148-335: execute_scheduled_instagram_post reads the row (reloading
\* it when a commit of this session has expired it) and is suspended in its
\* external calls; a submission to the adapter is made during this step
OverlapExecuteCall(k) ==
    /\ ticks[k].pc = "running"
    /\ ticks[k].queue # <<>>
    /\ LET p == Head(ticks[k].queue)
           seen == IF p \in ticks[k].expired THEN posts[p] ELSE ticks[k].sess[p]
       IN  \E r \in execute_scheduled_instagram_post(seen, account, now) :
              /\ ticks' = [ticks EXCEPT
                             ![k].pc = "call",
                             ![k].sess[p] = seen,
                             ![k].loaded[p] =
                                 IF p \in ticks[k].expired THEN posts[p] ELSE @,
                             ![k].expired = @ \ {p},
                             ![k].outcome = r]
              /\ submitCount' = [submitCount EXCEPT ![p] = @ + (IF r.submitted THEN 1 ELSE 0)]
    /\ UNCHANGED posts

\* the external calls are back: the row is assigned and, on the paths that
\* commit, the session is flushed and its rows expire
OverlapExecuteReturn(k) ==
    /\ ticks[k].pc = "call"
    /\ LET p == Head(ticks[k].queue)
           r == ticks[k].outcome
           assigned == [ticks[k].sess EXCEPT ![p] = r.row]
       IN  IF r.commit
           THEN /\ posts' = Flush(posts, assigned, ticks[k].loaded)
                /\ ticks' = [ticks EXCEPT ![k].pc = "running",
                                          ![k].queue = RemainingAfter(@, r.row),
                                          ![k].sess = posts',
                                          ![k].loaded = posts',
                                          ![k].expired = DOMAIN posts,
                                          ![k].outcome = NoOutcome]
           ELSE /\ posts' = posts
                /\ ticks' = [ticks EXCEPT ![k].pc = "running",
                                          ![k].queue = RemainingAfter(@, r.row),
                                          ![k].sess = assigned,
                                          ![k].outcome = NoOutcome]
    /\ UNCHANGED submitCount

\* lines 87-97: the loop over due_posts is over and the session is closed
OverlapTickEnd(k) ==
    /\ ticks[k].pc = "running"
    /\ ticks[k].queue = <<>>
    /\ ticks' = [ticks EXCEPT ![k] = IdleTick]
    /\ UNCHANGED <<posts, submitCount>>

(***************************************************************************)
(* start() and stop() called in any order on the scheduler singletons      *)
(***************************************************************************)
\* a loop whose while condition does not read the flag
WhileAlways(flag, body) == body

\* line 44 (line 26 of the bulk scheduler): the while condition reads the
\* running flag; the body runs when it is set, and start() returns otherwise
WhileRunning(flag, body) == IF flag THEN body ELSE "off"

\* the start() calls a scheduler gets
MaxTasks == 2

TaskIds == 1..MaxTasks

NoTasks == [svc |-> [k \in TaskIds |-> "none"], bulk |-> [k \in TaskIds |-> "none"]]

\* SchedulerService.start, lines 35-44: a call that finds the flag set
\* returns, any other call sets it and enters the loop
ServiceStartCall(k) ==
    /\ tasks.svc[k] = "none"
    /\ IF running
       THEN /\ tasks' = [tasks EXCEPT !.svc[k] = "done"]
            /\ UNCHANGED running
       ELSE /\ running' = TRUE
            /\ tasks' = [tasks EXCEPT !.svc[k] = WhileRunning(TRUE, "tick")]
    /\ UNCHANGED is_running

\* SchedulerService.stop, lines 53-56
ServiceStopCall ==
    /\ running' = FALSE
    /\ UNCHANGED <<is_running, tasks>>

\* lines 46-51: the tick of a loop is over, by return or by exception, and
\* the loop sleeps
ServiceTaskSleep(k) ==
    /\ tasks.svc[k] = "tick"
    /\ tasks' = [tasks EXCEPT !.svc[k] = "sleep"]
    /\ UNCHANGED <<running, is_running>>

\* line 44: the sleep is over and the while condition is tested
ServiceTaskWake(k) ==
    /\ tasks.svc[k] = "sleep"
    /\ tasks' = [tasks EXCEPT
                    !.svc[k] = IF WhileRunning(running, "tick") = "off" THEN "done" ELSE "tick"]
    /\ UNCHANGED <<running, is_running>>

\* BulkComposerScheduler.start, lines 18-24: every call sets the flag and
\* waits ten seconds
BulkStartCall(k) ==
    /\ tasks.bulk[k] = "none"
    /\ is_running' = TRUE
    /\ tasks' = [tasks EXCEPT !.bulk[k] = "delay"]
    /\ UNCHANGED running

\* BulkComposerScheduler.stop, lines 34-37
BulkStopCall ==
    /\ is_running' = FALSE
    /\ UNCHANGED <<running, tasks>>

\* lines 28-32: process_due_posts is over and the loop sleeps
BulkTaskSleep(k) ==
    /\ tasks.bulk[k] = "tick"
    /\ tasks' = [tasks EXCEPT !.bulk[k] = "sleep"]
    /\ UNCHANGED <<running, is_running>>

\* line 26: a sleep is over and the while condition is tested
BulkTaskWake(k) ==
    /\ tasks.bulk[k] \in {"delay", "sleep"}
    /\ tasks' = [tasks EXCEPT
                    !.bulk[k] = IF WhileRunning(is_running, "tick") = "off" THEN "done" ELSE "tick"]
    /\ UNCHANGED <<running, is_running>>

(***************************************************************************)
(* The fallback reply (_generate_ai_reply) as a comment                    *)
(***************************************************************************)
\* the longest commenter name
MaxNameLen == 3

\* characters of a commenter name: lower and upper case letters, the mention
\* sign, a blank and punctuation
NameChars == {"a", "T", "w", "@", " ", "!"}

RECURSIVE NamesOfLength(_)
NamesOfLength(n) ==
    IF n = 0 THEN {<<>>}
    ELSE {Append(name, c) : name \in NamesOfLength(n - 1), c \in NameChars}

CommenterNames == UNION {NamesOfLength(n) : n \in 0..MaxNameLen}

\* a fallback that only greets the commenter
FallbackGreeting(commenter_name) ==
    <<"@">> \o commenter_name \o <<" ", "H", "e", "l", "l", "o", "!">>

\* lines 494 and 499: the f-string returned when the generator reports a
\* failure or raises
FallbackReply(commenter_name) ==
    <<"@">> \o commenter_name \o
    <<" ", "T", "h", "a", "n", "k", "s", " ", "f", "o", "r", " ", "y", "o", "u", "r", " ",
      "c", "o", "m", "m", "e", "n", "t", "!", " ", "W", "e", " ", "a", "p", "p", "r", "e",
      "c", "i", "a", "t", "e", " ", "y", "o", "u", "r", " ", "e", "n", "g", "a", "g", "e",
      "m", "e", "n", "t", ".", " ", "U+1F60A">>

NoFallback == [name |-> <<>>, text |-> <<>>, classified |-> FALSE, is_ai |-> FALSE]

\* the fallback reply to a commenter is posted, comes back as a comment text
\* and is classified by _should_reply_to_comment (line 254)
ClassifyFallback ==
    /\ ~fallback.classified
    /\ LET reply == FallbackReply(fallback.name) IN
       fallback' = [fallback EXCEPT !.text = reply, !.classified = TRUE,
                                    !.is_ai = _is_ai_response(reply)]
    /\ UNCHANGED <<created, ticks, tasks, rl>>

(***************************************************************************)
(* The rate_limit decorator (utils/performance.py)                         *)
(***************************************************************************)
\* max_calls of the decorated functions
MaxCalls == 2

\* the coroutines of the event loop that call rate-limited functions
MaxCoroutines == 3

CoIds == 1..MaxCoroutines

\* the decorated functions; func.__name__ is the key of _rate_limit_cache,
\* and _lock is shared by all of them (line 17)
RateFuncs == {"f", "g"}

RateIdle ==
    [lock |-> 0, stamps |-> [f \in RateFuncs |-> 0],
     pc |-> [c \in CoIds |-> "idle"], fn |-> [c \in CoIds |-> "f"]]

\* the event loop's thread is stuck in _lock.acquire(): no coroutine runs
ThreadBlocked == \E c \in CoIds : rl.pc[c] = "blocked"

\* lines 30-53: a coroutine calls a decorated function and the wrapper runs
\* up to its first suspension.  'with _lock' (line 34) is a blocking acquire
\* of a threading.Lock: when a coroutine that sleeps at line 48 holds the
\* lock, the thread waits in it.  Otherwise the timestamps older than the
\* window are dropped (lines 39-42; how many have aged out depends on the
\* time that has passed), and the call sleeps with the lock held when
\* max_calls are left (lines 45-48) or records itself, leaves the with
\* block and reaches the function (lines 51-53).
RateCall(c) ==
    /\ ~ThreadBlocked
    /\ rl.pc[c] = "idle"
    /\ \E func_name \in RateFuncs :
          IF rl.lock # 0
          THEN rl' = [rl EXCEPT !.pc[c] = "blocked", !.fn[c] = func_name]
          ELSE \E kept \in 0..Min(rl.stamps[func_name], MaxCalls) :
                  IF kept >= MaxCalls
                  THEN rl' = [rl EXCEPT !.lock = c, !.pc[c] = "sleeping",
                                        !.fn[c] = func_name,
                                        !.stamps[func_name] = kept]
                  ELSE rl' = [rl EXCEPT !.pc[c] = "func", !.fn[c] = func_name,
                                        !.stamps[func_name] = kept + 1]

\* lines 48-53: asyncio.sleep is over; the timestamp is appended, the with
\* block releases the lock and the function is awaited
RateWake(c) ==
    /\ ~ThreadBlocked
    /\ rl.pc[c] = "sleeping"
    /\ rl' = [rl EXCEPT !.lock = 0, !.pc[c] = "func",
                         !.stamps[rl.fn[c]] = @ + 1]

\* line 53: the decorated function returns
RateReturn(c) ==
    /\ ~ThreadBlocked
    /\ rl.pc[c] = "func"
    /\ rl' = [rl EXCEPT !.pc[c] = "idle"]

\* no create request is being looked at, no tick overlaps another and
\* start() is called as main.py calls it
ExtAside ==
    /\ created = NewRequest(0, [hour |-> 0, minute |-> 0], "daily")
    /\ ticks = [k \in TickNames |-> IdleTick]
    /\ tasks = NoTasks
    /\ fallback = NoFallback
    /\ rl = RateIdle

\* no request has been made
ApiAside ==
    /\ rules = <<>>
    /\ pendingToggles = {}
    /\ lastToggle = [account |-> 0, enabled |-> FALSE, selected |-> <<>>]
    /\ lastRequest = Request("none", 0, 0)
    /\ ExtAside

(***************************************************************************)
(* The scheduler loops (SchedulerService.start, BulkComposerScheduler.start)*)
(***************************************************************************)
\* how a tick function can end: it returns, or an exception escapes it
\* (db.close() in the finally block, lines 95-97 and 388-390)
TickOutcomes == {"returns", "raises"}

\* a loop body without the except clause: an escaping exception ends the task
AfterPostsUncaught(outcome) == IF outcome = "raises" THEN "off" ELSE "replies"

\* lines 45-51: process_auto_replies follows a tick that returned; an
\* exception goes to the except clause, which sleeps
AfterPosts(outcome) == IF outcome = "raises" THEN "sleep" ELSE "replies"

\* main.py line 104 and start(), lines 35-42
ServiceStart ==
    /\ loopPc = "off"
    /\ ~running
    /\ running' = TRUE
    /\ loopPc' = "posts"
    /\ UNCHANGED <<tickOutcome, is_running, bulkLoopPc>>

\* stop(), lines 53-56
ServiceStop ==
    /\ running
    /\ running' = FALSE
    /\ UNCHANGED <<loopPc, tickOutcome, is_running, bulkLoopPc>>

\* line 46: the loop calls process_scheduled_posts
LoopTickStart == loopPc = "posts" /\ TickStart /\ UNCHANGED loopVars

LoopExecutePost == loopPc = "posts" /\ ExecutePost /\ UNCHANGED loopVars

\* process_scheduled_posts is over
LoopTickEnd ==
    /\ loopPc = "posts"
    /\ TickEnd
    /\ \E outcome \in TickOutcomes :
          /\ loopPc' = AfterPosts(outcome)
          /\ tickOutcome' = outcome
    /\ UNCHANGED <<running, is_running, bulkLoopPc>>

\* lines 47-48 and 372-390: process_auto_replies with no active rule; it
\* returns or raises, and the loop sleeps in both cases
LoopAutoReplies ==
    /\ loopPc = "replies"
    /\ ~rule.is_active
    /\ \E outcome \in TickOutcomes :
          /\ loopPc' = "sleep"
          /\ tickOutcome' = outcome
    /\ UNCHANGED <<running, is_running, bulkLoopPc>>

\* lines 44, 48 and 51: the sleep is over and the while condition is tested
LoopWake ==
    /\ loopPc = "sleep"
    /\ loopPc' = WhileRunning(running, "posts")
    /\ UNCHANGED <<running, tickOutcome, is_running, bulkLoopPc>>

\* main.py line 79 and BulkComposerScheduler.start, lines 20-24
BulkStart ==
    /\ bulkLoopPc = "off"
    /\ ~is_running
    /\ is_running' = TRUE
    /\ bulkLoopPc' = "delay"
    /\ UNCHANGED <<running, loopPc, tickOutcome>>

\* BulkComposerScheduler.stop, lines 34-37
BulkStop ==
    /\ is_running
    /\ is_running' = FALSE
    /\ UNCHANGED <<running, loopPc, tickOutcome, bulkLoopPc>>

\* lines 24, 26, 29 and 32: a sleep is over and the while condition is tested
BulkWake ==
    /\ bulkLoopPc \in {"delay", "sleep"}
    /\ bulkLoopPc' = WhileRunning(is_running, "tick")
    /\ UNCHANGED <<running, loopPc, tickOutcome, is_running>>

\* line 28: the loop calls process_due_posts
BulkLoopTickStart == bulkLoopPc = "tick" /\ BulkTickStart /\ UNCHANGED loopVars

BulkLoopPublish == bulkLoopPc = "tick" /\ bulkPc = "tick" /\ BulkPublish /\ UNCHANGED loopVars

\* process_due_posts is over; it catches every exception itself
BulkLoopTickEnd ==
    /\ bulkLoopPc = "tick"
    /\ bulkPc = "tick"
    /\ BulkPassEnd
    /\ bulkLoopPc' = "sleep"
    /\ UNCHANGED <<running, loopPc, tickOutcome, is_running>>

(***************************************************************************)
(* Specifications                                                          *)
(***************************************************************************)
\* the stores a specification leaves aside hold one fixed row each
DueAside ==
    /\ posts = [p \in PostIds |->
                  NewPost([media |-> [post_type |-> "text", image_url |-> "none",
                                      media_urls |-> 0, video_url |-> "none", prompt |-> 50],
                           social_account_id |-> 1], "scheduled", 0)]
    /\ duePc = "idle"
    /\ dueQueue = <<>>
    /\ dueAtStart = {}
    /\ sess = posts
    /\ submitCount = [p \in PostIds |-> 0]
    /\ calls = <<>>
    /\ processed = <<>>

BulkAside ==
    /\ items = [i \in ItemIds |-> NewItem(0, FALSE)]
    /\ bulkPc = "idle"
    /\ bulkQueue = <<>>
    /\ bulkAtStart = {}
    /\ procCount = [i \in ItemIds |-> 0]

ReplyAside ==
    /\ rule = NewRule(FALSE, <<>>)
    /\ comments = {}
    /\ dbTzAware = FALSE
    /\ replied_comments = [id \in CommentIds |-> None]
    /\ replyPc = "idle"
    /\ ReplyIdleLocals
    /\ execCount = 0
    /\ replyCalls = [id \in CommentIds |-> 0]
    /\ repliedOk = {}
    /\ lastDecision = [id |-> "none", verdict |-> "none", reply |-> "none"]

\* the scheduler loops are not started
LoopsAside ==
    /\ running = FALSE
    /\ loopPc = "off"
    /\ tickOutcome = "none"
    /\ is_running = FALSE
    /\ bulkLoopPc = "off"

vars == <<now, account, dueVars, bulkVars, replyVars, loopVars, apiVars>>

Init ==
    /\ now = 0
    /\ account \in AccountShapes
    /\ DueInit
    /\ BulkAside
    /\ ReplyAside
    /\ LoopsAside
    /\ ApiAside

Next ==
    \/ TickStart /\ UNCHANGED <<bulkVars, replyVars, loopVars, apiVars>>
    \/ ExecutePost /\ UNCHANGED <<bulkVars, replyVars, loopVars, apiVars>>
    \/ TickEnd /\ UNCHANGED <<bulkVars, replyVars, loopVars, apiVars>>
    \/ AdvanceClock /\ UNCHANGED <<account, dueVars, bulkVars, replyVars, loopVars, apiVars>>
    \/ duePc = "idle" /\ ConnectAccount /\ UNCHANGED <<now, dueVars, bulkVars, replyVars, loopVars, apiVars>>
    \/ duePc = "idle" /\ DisconnectAccount /\ UNCHANGED <<now, dueVars, bulkVars, replyVars, loopVars, apiVars>>

Spec == Init /\ [][Next]_vars

InitBulk ==
    /\ now = 0
    /\ account \in AccountShapes
    /\ BulkInit
    /\ DueAside
    /\ ReplyAside
    /\ LoopsAside
    /\ ApiAside

NextBulk ==
    \/ BulkTickStart /\ UNCHANGED <<dueVars, replyVars, loopVars, apiVars>>
    \/ BulkPublish /\ UNCHANGED <<dueVars, replyVars, loopVars, apiVars>>
    \/ RetryStart /\ UNCHANGED <<dueVars, replyVars, loopVars, apiVars>>
    \/ RetryPublish /\ UNCHANGED <<dueVars, replyVars, loopVars, apiVars>>
    \/ BulkPassEnd /\ UNCHANGED <<dueVars, replyVars, loopVars, apiVars>>
    \/ AdvanceClock /\ UNCHANGED <<account, dueVars, bulkVars, replyVars, loopVars, apiVars>>
    \/ bulkPc = "idle" /\ ConnectAccount /\ UNCHANGED <<now, dueVars, bulkVars, replyVars, loopVars, apiVars>>
    \/ bulkPc = "idle" /\ DisconnectAccount /\ UNCHANGED <<now, dueVars, bulkVars, replyVars, loopVars, apiVars>>

SpecBulk == InitBulk /\ [][NextBulk]_vars

InitReply ==
    /\ now = 0
    /\ account \in AccountShapes
    /\ ReplyInit
    /\ DueAside
    /\ BulkAside
    /\ LoopsAside
    /\ ApiAside

NextReply ==
    \/ ReplyStart /\ UNCHANGED <<dueVars, bulkVars, loopVars, apiVars>>
    \/ ReplyFetch /\ UNCHANGED <<dueVars, bulkVars, loopVars, apiVars>>
    \/ ReplyDecide /\ UNCHANGED <<dueVars, bulkVars, loopVars, apiVars>>
    \/ ReplyPostDone /\ UNCHANGED <<dueVars, bulkVars, loopVars, apiVars>>
    \/ ReplyFinish /\ UNCHANGED <<dueVars, bulkVars, loopVars, apiVars>>
    \/ ReplyAdvanceClock /\ UNCHANGED <<account, dueVars, bulkVars, replyVars, loopVars, apiVars>>
    \/ replyPc = "idle" /\ ConnectAccount /\ UNCHANGED <<now, dueVars, bulkVars, replyVars, loopVars, apiVars>>
    \/ replyPc = "idle" /\ DisconnectAccount /\ UNCHANGED <<now, dueVars, bulkVars, replyVars, loopVars, apiVars>>

SpecReply == InitReply /\ [][NextReply]_vars

\* The scheduler loop over posts that are due from the start, with the
\* account being connected and disconnected between ticks.
RetryPostRows ==
    {NewPost([media |-> [post_type |-> "photo", image_url |-> i, media_urls |-> 0,
                         video_url |-> "none", prompt |-> 50],
              social_account_id |-> 1], st, 0) :
        i \in {"none", "url"}, st \in {"scheduled", "ready"}}

InitRetry ==
    /\ now = 0
    /\ account \in AccountShapes
    /\ DueStore(RetryPostRows)
    /\ BulkAside
    /\ ReplyAside
    /\ LoopsAside
    /\ ApiAside

NextRetry ==
    \/ ServiceStart /\ UNCHANGED <<now, account, dueVars, bulkVars, replyVars, apiVars>>
    \/ ServiceStop /\ UNCHANGED <<now, account, dueVars, bulkVars, replyVars, apiVars>>
    \/ LoopTickStart /\ UNCHANGED <<bulkVars, replyVars, apiVars>>
    \/ LoopExecutePost /\ UNCHANGED <<bulkVars, replyVars, apiVars>>
    \/ LoopTickEnd /\ UNCHANGED <<bulkVars, replyVars, apiVars>>
    \/ LoopAutoReplies /\ UNCHANGED <<now, account, dueVars, bulkVars, replyVars, apiVars>>
    \/ LoopWake /\ UNCHANGED <<now, account, dueVars, bulkVars, replyVars, apiVars>>
    \/ duePc = "idle" /\ ConnectAccount /\ UNCHANGED <<now, dueVars, bulkVars, replyVars, loopVars, apiVars>>
    \/ duePc = "idle" /\ DisconnectAccount /\ UNCHANGED <<now, dueVars, bulkVars, replyVars, loopVars, apiVars>>

\* the event loop runs the scheduler task whenever it is ready, and its
\* sleep ends
RetryFairness ==
    /\ WF_vars(LoopTickStart /\ UNCHANGED <<bulkVars, replyVars, apiVars>>)
    /\ WF_vars(LoopExecutePost /\ UNCHANGED <<bulkVars, replyVars, apiVars>>)
    /\ WF_vars(LoopTickEnd /\ UNCHANGED <<bulkVars, replyVars, apiVars>>)
    /\ WF_vars(LoopAutoReplies /\ UNCHANGED <<now, account, dueVars, bulkVars, replyVars, apiVars>>)
    /\ WF_vars(LoopWake /\ UNCHANGED <<now, account, dueVars, bulkVars, replyVars, apiVars>>)

SpecRetry == InitRetry /\ [][NextRetry]_vars /\ RetryFairness

\* The due-post tick over one row of every media shape, long carousels
\* included, next to a plain photo row.
MediaPostRows ==
    {NewPost([media |-> m, social_account_id |-> 1], "scheduled", 0) :
        m \in MediaShapes \cup LongCarouselShapes}

InitMedia ==
    /\ now = 0
    /\ account \in AccountShapes
    /\ \E row \in MediaPostRows :
         posts = [p \in PostIds |->
                    IF p = 1 THEN row
                    ELSE NewPost([media |-> [post_type |-> "photo", image_url |-> "url",
                                             media_urls |-> 0, video_url |-> "none",
                                             prompt |-> 50],
                                  social_account_id |-> 1], "scheduled", MaxTime)]
    /\ DueIdle
    /\ BulkAside
    /\ ReplyAside
    /\ LoopsAside
    /\ ApiAside

SpecMedia == InitMedia /\ [][Next]_vars

\* both loops over a store of photo posts and text items, some due at once
\* and some not yet due
LoopPostRows ==
    {NewPost([media |-> [post_type |-> "photo", image_url |-> "url", media_urls |-> 0,
                         video_url |-> "none", prompt |-> 50],
              social_account_id |-> 1], "scheduled", w) :
        w \in SchedTimes}

LoopItemRows == {NewItem(w, FALSE) : w \in SchedTimes}

InitLoops ==
    /\ now = 0
    /\ account \in AccountShapes
    /\ DueStore(LoopPostRows)
    /\ BulkStore(LoopItemRows)
    /\ ReplyAside
    /\ LoopsAside
    /\ ApiAside

NextLoops ==
    \/ ServiceStart /\ UNCHANGED <<now, account, dueVars, bulkVars, replyVars, apiVars>>
    \/ ServiceStop /\ UNCHANGED <<now, account, dueVars, bulkVars, replyVars, apiVars>>
    \/ LoopTickStart /\ UNCHANGED <<bulkVars, replyVars, apiVars>>
    \/ LoopExecutePost /\ UNCHANGED <<bulkVars, replyVars, apiVars>>
    \/ LoopTickEnd /\ UNCHANGED <<bulkVars, replyVars, apiVars>>
    \/ LoopAutoReplies /\ UNCHANGED <<now, account, dueVars, bulkVars, replyVars, apiVars>>
    \/ LoopWake /\ UNCHANGED <<now, account, dueVars, bulkVars, replyVars, apiVars>>
    \/ BulkStart /\ UNCHANGED <<now, account, dueVars, bulkVars, replyVars, apiVars>>
    \/ BulkStop /\ UNCHANGED <<now, account, dueVars, bulkVars, replyVars, apiVars>>
    \/ BulkWake /\ UNCHANGED <<now, account, dueVars, bulkVars, replyVars, apiVars>>
    \/ BulkLoopTickStart /\ UNCHANGED <<dueVars, replyVars, apiVars>>
    \/ BulkLoopPublish /\ UNCHANGED <<dueVars, replyVars, apiVars>>
    \/ BulkLoopTickEnd /\ UNCHANGED <<dueVars, replyVars, apiVars>>

\* the event loop runs every task that is ready and every sleep ends
LoopsFairness ==
    /\ WF_vars(LoopTickStart /\ UNCHANGED <<bulkVars, replyVars, apiVars>>)
    /\ WF_vars(LoopExecutePost /\ UNCHANGED <<bulkVars, replyVars, apiVars>>)
    /\ WF_vars(LoopTickEnd /\ UNCHANGED <<bulkVars, replyVars, apiVars>>)
    /\ WF_vars(LoopAutoReplies /\ UNCHANGED <<now, account, dueVars, bulkVars, replyVars, apiVars>>)
    /\ WF_vars(LoopWake /\ UNCHANGED <<now, account, dueVars, bulkVars, replyVars, apiVars>>)
    /\ WF_vars(BulkWake /\ UNCHANGED <<now, account, dueVars, bulkVars, replyVars, apiVars>>)
    /\ WF_vars(BulkLoopTickStart /\ UNCHANGED <<dueVars, replyVars, apiVars>>)
    /\ WF_vars(BulkLoopPublish /\ UNCHANGED <<dueVars, replyVars, apiVars>>)
    /\ WF_vars(BulkLoopTickEnd /\ UNCHANGED <<dueVars, replyVars, apiVars>>)

SpecLoops == InitLoops /\ [][NextLoops]_vars /\ LoopsFairness

\* the toggle requests of one user for the Instagram account and the
\* Facebook page
InitToggle ==
    /\ now = 0
    /\ account \in AccountShapes
    /\ DueAside
    /\ BulkAside
    /\ ReplyAside
    /\ LoopsAside
    /\ ApiAside

NextToggle ==
    \/ toggle_instagram_auto_reply /\ UNCHANGED <<now, account, dueVars, bulkVars, replyVars, loopVars>>
    \/ toggle_auto_reply /\ UNCHANGED <<now, account, dueVars, bulkVars, replyVars, loopVars>>
    \/ ToggleComplete /\ UNCHANGED <<now, account, dueVars, bulkVars, replyVars, loopVars>>
    \/ ConnectAccount /\ UNCHANGED <<now, dueVars, bulkVars, replyVars, loopVars, apiVars>>
    \/ DisconnectAccount /\ UNCHANGED <<now, dueVars, bulkVars, replyVars, loopVars, apiVars>>

SpecToggle == InitToggle /\ [][NextToggle]_vars

\* the schedule requests of one user, over a store that is empty or holds one
\* Instagram schedule, with the due-post tick running between requests
InitSchedule ==
    /\ now = 0
    /\ account \in AccountShapes
    /\ \E S \in {{}, {1}} : posts \in [S -> LoopPostRows]
    /\ DueIdle
    /\ BulkAside
    /\ ReplyAside
    /\ LoopsAside
    /\ ApiAside

NextSchedule ==
    \/ duePc = "idle" /\ create_scheduled_post /\ UNCHANGED <<now, account, bulkVars, replyVars, loopVars>>
    \/ duePc = "idle" /\ delete_scheduled_post /\ UNCHANGED <<now, account, bulkVars, replyVars, loopVars>>
    \/ duePc = "idle" /\ deactivate_scheduled_post /\ UNCHANGED <<now, account, bulkVars, replyVars, loopVars>>
    \/ TickStart /\ UNCHANGED <<bulkVars, replyVars, loopVars, apiVars>>
    \/ ExecutePost /\ UNCHANGED <<bulkVars, replyVars, loopVars, apiVars>>
    \/ TickEnd /\ UNCHANGED <<bulkVars, replyVars, loopVars, apiVars>>
    \/ AdvanceClock /\ UNCHANGED <<account, dueVars, bulkVars, replyVars, loopVars, apiVars>>

SpecSchedule == InitSchedule /\ [][NextSchedule]_vars

\* one create request, made at any clock reading for any post_time and
\* frequency
InitCreate ==
    /\ now = 0
    /\ account \in AccountShapes
    /\ DueAside
    /\ BulkAside
    /\ ReplyAside
    /\ LoopsAside
    /\ rules = <<>>
    /\ pendingToggles = {}
    /\ lastToggle = [account |-> 0, enabled |-> FALSE, selected |-> <<>>]
    /\ lastRequest = Request("none", 0, 0)
    /\ \E t \in ClockReadings, post_time \in PostTimes, frequency \in Frequencies :
          created = NewRequest(t, post_time, frequency)
    /\ ticks = [k \in TickNames |-> IdleTick]
    /\ tasks = NoTasks
    /\ fallback = NoFallback
    /\ rl = RateIdle

NextCreate ==
    CalculateNextExecution
        /\ UNCHANGED <<now, account, dueVars, bulkVars, replyVars, loopVars,
                       rules, pendingToggles, lastToggle, lastRequest>>

SpecCreate == InitCreate /\ [][NextCreate]_vars

\* coroutines calling rate-limited functions on one event loop
InitRate ==
    /\ now = 0
    /\ account \in AccountShapes
    /\ DueAside
    /\ BulkAside
    /\ ReplyAside
    /\ LoopsAside
    /\ ApiAside

RateRest ==
    UNCHANGED <<now, account, dueVars, bulkVars, replyVars, loopVars, rules,
                pendingToggles, lastToggle, lastRequest, created, ticks, tasks,
                fallback>>

NextRate ==
    \/ \E c \in CoIds : RateCall(c) /\ RateRest
    \/ \E c \in CoIds : RateWake(c) /\ RateRest
    \/ \E c \in CoIds : RateReturn(c) /\ RateRest

\* the event loop resumes every coroutine whose sleep or call is over
RateFairness ==
    \A c \in CoIds :
        /\ WF_vars(RateWake(c) /\ RateRest)
        /\ WF_vars(RateReturn(c) /\ RateRest)

SpecRate == InitRate /\ [][NextRate]_vars /\ RateFairness

\* one fallback reply, for any commenter name
InitFallback ==
    /\ now = 0
    /\ account \in AccountShapes
    /\ DueAside
    /\ BulkAside
    /\ ReplyAside
    /\ LoopsAside
    /\ rules = <<>>
    /\ pendingToggles = {}
    /\ lastToggle = [account |-> 0, enabled |-> FALSE, selected |-> <<>>]
    /\ lastRequest = Request("none", 0, 0)
    /\ created = NewRequest(0, [hour |-> 0, minute |-> 0], "daily")
    /\ ticks = [k \in TickNames |-> IdleTick]
    /\ tasks = NoTasks
    /\ \E name \in CommenterNames : fallback = [NoFallback EXCEPT !.name = name]
    /\ rl = RateIdle

NextFallback ==
    ClassifyFallback
        /\ UNCHANGED <<now, account, dueVars, bulkVars, replyVars, loopVars,
                       rules, pendingToggles, lastToggle, lastRequest>>

SpecFallback == InitFallback /\ [][NextFallback]_vars

\* the loop's tick and a triggered tick over the same store
InitOverlap ==
    /\ now = 0
    /\ account \in AccountShapes
    /\ DueStore(LoopPostRows)
    /\ BulkAside
    /\ ReplyAside
    /\ LoopsAside
    /\ ApiAside

OverlapRest ==
    UNCHANGED <<now, account, duePc, dueQueue, dueAtStart, sess, calls, processed,
                bulkVars, replyVars, loopVars, rules, pendingToggles, lastToggle,
                lastRequest, created, tasks, fallback, rl>>

NextOverlap ==
    \/ \E k \in TickNames : OverlapTickStart(k) /\ OverlapRest
    \/ \E k \in TickNames : OverlapExecuteCall(k) /\ OverlapRest
    \/ \E k \in TickNames : OverlapExecuteReturn(k) /\ OverlapRest
    \/ \E k \in TickNames : OverlapTickEnd(k) /\ OverlapRest
    \/ AdvanceClock /\ UNCHANGED <<account, dueVars, bulkVars, replyVars, loopVars, apiVars>>

SpecOverlap == InitOverlap /\ [][NextOverlap]_vars

\* start() and stop() called in any order, with the loops running in between
InitTasks ==
    /\ now = 0
    /\ account \in AccountShapes
    /\ DueAside
    /\ BulkAside
    /\ ReplyAside
    /\ LoopsAside
    /\ ApiAside

TasksRest ==
    UNCHANGED <<now, account, dueVars, bulkVars, replyVars, loopPc, tickOutcome,
                bulkLoopPc, rules, pendingToggles, lastToggle, lastRequest,
                created, ticks, fallback, rl>>

NextTasks ==
    \/ \E k \in TaskIds : ServiceStartCall(k) /\ TasksRest
    \/ ServiceStopCall /\ TasksRest
    \/ \E k \in TaskIds : ServiceTaskSleep(k) /\ TasksRest
    \/ \E k \in TaskIds : ServiceTaskWake(k) /\ TasksRest
    \/ \E k \in TaskIds : BulkStartCall(k) /\ TasksRest
    \/ BulkStopCall /\ TasksRest
    \/ \E k \in TaskIds : BulkTaskSleep(k) /\ TasksRest
    \/ \E k \in TaskIds : BulkTaskWake(k) /\ TasksRest

SpecTasks == InitTasks /\ [][NextTasks]_vars

(***************************************************************************)
(* Properties of the due-post scheduler                                    *)
(***************************************************************************)
\* the loop over due_posts has run to its end and the session is still open
TickFinished == duePc = "running" /\ dueQueue = <<>>

AccountConnected(post) == AccountFound(post) /\ account.is_connected

\* C1: after one tick every post that was due at its start and whose account
\* exists and is connected is inactive with status posted or failed.
C1_DueTickFinalises ==
    TickFinished =>
        \A p \in dueAtStart :
            AccountConnected(posts[p]) =>
                (~posts[p].is_active /\ posts[p].status \in TerminalStatus)

\* C2: a row with status posted or failed has is_active = false.
C2_TerminalIsInactive ==
    \A p \in PostIds :
        posts[p].status \in TerminalStatus => ~posts[p].is_active

\* C3: the create-post operation is invoked at most once per ScheduledPost,
\* whatever the outcome of the first submission.
C3_OneShotDelivery ==
    \A p \in PostIds : submitCount[p] <= 1

\* a post whose submission failed is passed over by a later tick's due query
C3_Witness ==
    \E p \in PostIds :
        /\ submitCount[p] = 1
        /\ posts[p].status = "failed"
        /\ posts[p].scheduled_datetime <= now
        /\ duePc = "running"
        /\ p \notin dueAtStart

\* C4: a tick never changes status, post id or is_active of a posted or failed
\* row, and no step turns is_active from false to true.
C4_TerminalImmutable ==
    [][\A p \in PostIds :
        /\ posts[p].status \in TerminalStatus =>
              /\ posts'[p].status = posts[p].status
              /\ posts'[p].post_id = posts[p].post_id
              /\ posts'[p].is_active = posts[p].is_active
        /\ ~posts[p].is_active => ~posts'[p].is_active]_vars

\* a posted row and a failed row that is still active, while a later tick
\* is working on another row
C4_Witness ==
    /\ duePc = "running"
    /\ dueQueue # <<>>
    /\ \E p \in PostIds : posts[p].status = "posted" /\ p \notin dueAtStart

\* C13: every post returned by the due query of a tick is handed to
\* execute_scheduled_instagram_post, whatever happened to the posts before it.
C13_FailureIsolation ==
    TickFinished => Range(processed) = dueAtStart

\* the first post of the tick failed (once in the outer exception handler or
\* for missing credentials, once at the adapter) and the second was processed
C13_Witness ==
    /\ TickFinished
    /\ Len(processed) = 2
    /\ posts[processed[1]].status = "failed"
    /\ posts[processed[2]].last_executed = now
    /\ \E p \in PostIds : posts[p].status = "failed" /\ posts[p].is_active
    /\ \E p \in PostIds : posts[p].status = "failed" /\ submitCount[p] = 1

(***************************************************************************)
(* Properties of the bulk-batch scheduler                                  *)
(***************************************************************************)
\* C5: publish_attempts of every row never decreases and never exceeds 3.
C5_AttemptsMonotoneBounded ==
    /\ [](\A i \in ItemIds : items[i].publish_attempts <= 3)
    /\ [][\A i \in ItemIds :
            items'[i].publish_attempts >= items[i].publish_attempts]_vars

\* a row that used up its three attempts, left out by a running retry pass
C5_Witness ==
    /\ bulkPc = "retry"
    /\ \E i \in ItemIds :
          /\ items[i].publish_attempts = 3
          /\ items[i].status = "failed"
          /\ \A k \in 1..Len(bulkQueue) : bulkQueue[k] # i

\* C6: every item is processed at most 3 times in total, whatever makes it
\* fail, and no retry pass selects it after that.
C6_BoundedRetry ==
    \A i \in ItemIds : procCount[i] <= 3

\* C7: a row that is failed with publish_attempts = 3 keeps its status,
\* attempt counter, error message and platform post id in every step.
C7_ExhaustedRowFrozen ==
    [][\A i \in ItemIds :
        (items[i].status = "failed" /\ items[i].publish_attempts = 3) =>
            /\ items'[i].status = items[i].status
            /\ items'[i].publish_attempts = items[i].publish_attempts
            /\ items'[i].error_message = items[i].error_message
            /\ items'[i].facebook_post_id = items[i].facebook_post_id]_vars

\* an exhausted row that is past its due time while a main-loop tick publishes
\* another row
C7_Witness ==
    /\ bulkPc = "tick"
    /\ bulkQueue # <<>>
    /\ \E i \in ItemIds :
          /\ items[i].status = "failed"
          /\ items[i].publish_attempts = 3
          /\ items[i].scheduled_datetime <= now

(***************************************************************************)
(* Properties of the auto-reply engine                                     *)
(***************************************************************************)
\* C8: the reply operation is never called for a comment whose author is the
\* rule's own platform account.
C8_NoReplyToOwnComment ==
    \A c \in comments :
        c.from_id = account.platform_user_id => replyCalls[c.id] = 0

\* the reply decision was just taken for one of the account's own comments
C8_Witness ==
    /\ lastDecision.verdict = "own"
    /\ \E c \in comments :
          /\ c.id = lastDecision.id
          /\ c.from_id = account.platform_user_id
          /\ replyCalls[c.id] = 0

\* the texts in use that contain, case-insensitively, a phrase of ai_indicators
IndicatorTexts ==
    {t \in CommentTexts :
        \E k \in 1..Len(ai_indicators) : Contains(Lower(t), ai_indicators[k])}

\* C9: the reply operation is never called for a comment whose text contains
\* an AI-response indicator phrase, and deciding on such a comment leaves the
\* reply count of the post unchanged.
C9_NoReplyToAiText ==
    /\ [](\A c \in comments : c.text \in IndicatorTexts => replyCalls[c.id] = 0)
    /\ [][(/\ replyPc = "comments"
           /\ commentQueue # <<>>
           /\ Head(commentQueue).text \in IndicatorTexts
           /\ replyPc' = "comments"
           /\ commentQueue' = Tail(commentQueue))
          => replies_for_post' = replies_for_post]_vars

\* the reply decision was just taken for a comment carrying an indicator phrase
C9_Witness ==
    /\ lastDecision.verdict = "skip"
    /\ \E c \in comments :
          /\ c.id = lastDecision.id
          /\ c.text \in IndicatorTexts
          /\ c.from_id # account.platform_user_id
          /\ replyCalls[c.id] = 0

\* C10: once a reply to a comment id has succeeded, the reply operation is
\* never called for that comment id again.
C10_NoSecondReply ==
    [][\A id \in CommentIds :
        id \in repliedOk => replyCalls'[id] = replyCalls[id]]_vars

\* C11: one execution of the rule makes at most 3 reply calls over all its
\* posts, and no post's comments are fetched once 3 replies were attempted.
C11_ReplyBudget ==
    /\ [](execReplyCalls <= 3)
    /\ [][(/\ replyPc = "posts"
           /\ \/ replyPc' = "comments"
              \/ replyPc' = "posts" /\ postQueue' # postQueue)
          => execReplyCalls < 3]_vars

\* three replies went to the first post and the next post, which has comments,
\* is still waiting
C11_Witness ==
    /\ replyPc = "posts"
    /\ execReplyCalls = 3
    /\ postQueue # <<>>
    /\ VisibleComments(Head(postQueue), now) # {}

(***************************************************************************)
(* Properties of the scheduler loops                                       *)
(***************************************************************************)
\* no ScheduledPost row is active, scheduled or ready, and past its time
NoPostDue ==
    \A p \in PostIds :
        ~(/\ posts[p].is_active
          /\ posts[p].status \in {"scheduled", "ready"}
          /\ posts[p].platform = "instagram"
          /\ posts[p].scheduled_datetime <= now)

\* no BulkComposerContent row is scheduled and past its time
NoItemDue ==
    \A i \in ItemIds :
        ~(items[i].status = "scheduled" /\ items[i].scheduled_datetime <= now)

\* C12: a due-post tick or a bulk-batch tick that starts on a store with no
\* due row changes no row and makes no adapter, generator or uploader call.
C12_EmptyTickIdempotent ==
    [][/\ (duePc = "idle" /\ duePc' = "running" /\ NoPostDue) =>
            (dueQueue' = <<>> /\ posts' = posts)
       /\ (duePc = "running" /\ dueAtStart = {}) =>
            (posts' = posts /\ calls' = <<>> /\ submitCount' = submitCount)
       /\ (bulkPc = "idle" /\ bulkPc' = "tick" /\ NoItemDue) =>
            (bulkQueue' = <<>> /\ items' = items)
       /\ (bulkPc = "tick" /\ bulkQueue = <<>>) =>
            (items' = items /\ procCount' = procCount)]_vars

\* both ticks are running on stores whose rows are all still waiting for
\* their time, after an earlier tick made an adapter call
C12_Witness ==
    /\ duePc = "running" /\ dueAtStart = {}
    /\ \E p \in PostIds : posts[p].status = "scheduled" /\ posts[p].scheduled_datetime > now
    /\ \E p \in PostIds : submitCount[p] = 1
    /\ bulkPc = "tick" /\ bulkQueue = <<>>
    /\ \E i \in ItemIds : items[i].status = "scheduled" /\ items[i].scheduled_datetime > now
    /\ \E i \in ItemIds : procCount[i] = 1

\* C14: while its running flag is set, a scheduler loop is ended by no outcome
\* of a tick: every tick is followed by the sleep, and the sleep by a new tick.
C14_LoopSurvivesTicks ==
    /\ [][/\ (loopPc # "off" /\ loopPc' = "off") => (loopPc = "sleep" /\ ~running)
          /\ (loopPc = "posts" /\ loopPc' # "posts") => loopPc' \in {"replies", "sleep"}
          /\ (loopPc = "replies" /\ loopPc' # "replies") => loopPc' = "sleep"
          /\ (bulkLoopPc # "off" /\ bulkLoopPc' = "off") =>
                (bulkLoopPc \in {"delay", "sleep"} /\ ~is_running)
          /\ (bulkLoopPc = "tick" /\ bulkLoopPc' # "tick") => bulkLoopPc' = "sleep"]_vars
    /\ (loopPc \in {"posts", "replies"}) ~> (loopPc = "sleep")
    /\ (loopPc = "sleep" /\ running) ~> (duePc = "running" \/ ~running)
    /\ (bulkLoopPc = "tick") ~> (bulkLoopPc = "sleep")
    /\ (bulkLoopPc = "sleep" /\ is_running) ~> (bulkPc = "tick" \/ ~is_running)

\* an exception escaped the latest tick, after a post was published, and the
\* loop is in its sleep with the flag still set
C14_Witness ==
    /\ running
    /\ loopPc = "sleep"
    /\ tickOutcome = "raises"
    /\ \E p \in PostIds : posts[p].status = "posted"
    /\ is_running
    /\ bulkLoopPc = "sleep"

(***************************************************************************)
(* Properties of the API requests                                          *)
(***************************************************************************)
\* the AUTO_REPLY rows of an account
RulesFor(table, account_id) ==
    {i \in 1..Len(table) :
        table[i].social_account_id = account_id /\ table[i].rule_type = "AUTO_REPLY"}

\* C15: the table holds at most one AUTO_REPLY rule per account, and a toggle
\* for an account that has a rule writes is_active and the selection into
\* that row instead of adding one.
C15_OneRulePerAccount ==
    /\ [](\A a \in {InstagramAccountId, FacebookAccountId} :
            Cardinality(RulesFor(rules, a)) <= 1)
    /\ [](lastToggle.account # 0 =>
            \E i \in RulesFor(rules, lastToggle.account) :
                /\ rules[i].rule.is_active = lastToggle.enabled
                /\ rules[i].rule.selected_instagram_post_ids = lastToggle.selected)
    /\ [][\A a \in {InstagramAccountId, FacebookAccountId} :
            RulesFor(rules, a) # {} => RulesFor(rules', a) = RulesFor(rules, a)]_vars

\* both accounts have a rule, and the account whose rule was created first
\* was toggled again after the other rule was created
C15_Witness ==
    /\ Len(rules) = 2
    /\ rules[1].social_account_id = lastToggle.account
    /\ rules[2].social_account_id # lastToggle.account
    /\ ~rules[1].rule.is_active
    /\ rules[1].rule.selected_instagram_post_ids = <<"p1">>

\* the rows of an account with is_active = true
ActiveSchedules(account_id) ==
    {p \in DOMAIN posts : posts[p].social_account_id = account_id /\ posts[p].is_active}

\* C16: an account never has two active ScheduledPost rows, and a create
\* request for an account with an active row is answered with an error and
\* leaves the store as it was.
C16_OneActiveSchedule ==
    /\ [](\A a \in {InstagramAccountId, FacebookAccountId} :
            Cardinality(ActiveSchedules(a)) <= 1)
    /\ [][(/\ lastRequest' # lastRequest
           /\ lastRequest'.op = "create"
           /\ ActiveSchedules(lastRequest'.account) # {})
          => (lastRequest'.status = 400 /\ posts' = posts)]_vars

\* a create request was just rejected for an account with one active row,
\* next to a row that a tick has published
C16_Witness ==
    /\ lastRequest = Request("create", lastRequest.account, 400)
    /\ Cardinality(ActiveSchedules(lastRequest.account)) = 1
    /\ \E p \in DOMAIN posts : posts[p].status = "posted" /\ ~posts[p].is_active

\* the round of the due loop that has just handled the post at the head of
\* the queue
PostHandled == duePc = "running" /\ dueQueue # <<>> /\ processed' # processed

CallsOf(log, ops) == {i \in DOMAIN log : log[i].op \in ops}

GeneratorOps == {"generate_instagram_image_with_ai"}

AdapterOps == {"create_post", "create_carousel_post"}

\* the rounds of generate-and-upload that handed back a URL
UploadedUrls(log) ==
    {i \in DOMAIN log :
        log[i].op = "upload_image_with_instagram_transform" /\ log[i].url # "none"}

\* the account row exists, is connected and carries its credentials
AccountReady(post) ==
    /\ post.social_account_id = 1
    /\ account.is_connected
    /\ account.page_access_token # "none"
    /\ account.platform_user_id # "none"

C19_ReplyCount ==
    /\ [][(/\ replyPc = "posts"
           /\ replyPc' = "idle"
           /\ execTrace.started = now
           /\ ~execTrace.fetch_failed)
          => /\ execReplyCalls = Min(3, execTrace.qualifying)
             /\ rule'.last_execution_at = now]_vars
    /\ [][execReplyCalls' = execReplyCalls + 1
          => rule'.success_count =
                rule.success_count
                + (IF lastDecision'.id \in repliedOk' /\ replied_comments'[lastDecision'.id] = now
                   THEN 1 ELSE 0)]_vars

\* the media of the handled post is there after resolution: it was supplied
\* with the row, or the uploads made for it returned the URLs it needs
MediaResolved(row, log) ==
    CASE row.post_type = "photo" ->
            row.image_url = "url" \/ UploadedUrls(log) # {}
      [] row.post_type = "carousel" ->
            row.media_urls > 0 \/ Cardinality(UploadedUrls(log)) >= 3
      [] row.post_type = "reel" -> row.video_url # "none"
      [] OTHER -> FALSE

\* C20: when a due post with a caption and resolved media is handled while
\* its account row is missing or not connected, the adapter is not called,
\* status and is_active stay as they were (the post is not marked failed), and
\* the stored row still satisfies the due query.
C20_SkipWithoutAccount ==
    [][(/\ PostHandled
        /\ sess[Head(dueQueue)].prompt \notin {None, 0}
        /\ MediaResolved(sess[Head(dueQueue)], calls')
        /\ sess[Head(dueQueue)].social_account_id # 1 \/ ~account.is_connected)
       => LET p == Head(dueQueue)
          IN  /\ CallsOf(calls', AdapterOps) = {}
              /\ sess'[p].status = sess[p].status
              /\ sess'[p].is_active = sess[p].is_active
              /\ posts'[p].status = posts[p].status
              /\ posts'[p].is_active
              /\ posts'[p].status \in {"scheduled", "ready"}
              /\ posts'[p].platform = "instagram"
              /\ posts'[p].scheduled_datetime <= now]_vars

\* a photo post got its image generated and uploaded while the account was
\* disconnected: no adapter call was made and the row is stored as it was
C20_Witness ==
    /\ duePc = "running"
    /\ processed # <<>>
    /\ ~account.is_connected
    /\ calls = <<GenerateCall, UploadCall("ok")>>
    /\ LET p == processed[Len(processed)]
       IN  /\ posts[p].post_type = "photo"
           /\ posts[p].status \in {"scheduled", "ready"}
           /\ posts[p].is_active
           /\ posts[p].scheduled_datetime <= now

\* the ways the media of a handled post can fail to be resolved: the upload
\* of an embedded image fails, the image generation (or the upload after it)
\* fails, fewer than three carousel images come back, a reel has no video
\* reference, the post type has no media
MediaFailure(row, log) ==
    CASE row.post_type = "photo" ->
            row.image_url \in {"base64", "none"} /\ UploadedUrls(log) = {}
      [] row.post_type = "carousel" ->
            row.media_urls = 0 /\ Cardinality(UploadedUrls(log)) < 3
      [] row.post_type = "reel" -> row.video_url = "none"
      [] OTHER -> TRUE

\* C21: when the media of a handled post with a caption cannot be resolved,
\* the stored row gets status failed, is_active false and last_executed set
\* to the time of the tick, and no adapter call is made for the post.
C21_MediaFailureIsTerminal ==
    [][(/\ PostHandled
        /\ sess[Head(dueQueue)].prompt \notin {None, 0}
        /\ MediaFailure(sess[Head(dueQueue)], calls'))
       => LET p == Head(dueQueue)
          IN  /\ posts'[p].status = "failed"
              /\ ~posts'[p].is_active
              /\ posts'[p].last_executed = now
              /\ posts'[p] = sess'[p]
              /\ CallsOf(calls', AdapterOps) = {}]_vars

\* a carousel for which only two of three generated images came back is
\* stored as failed, and the generator and uploader are all that was called
C21_Witness ==
    /\ duePc = "running"
    /\ processed # <<>>
    /\ Cardinality(CallsOf(calls, GeneratorOps)) = 3
    /\ Cardinality(UploadedUrls(calls)) = 2
    /\ CallsOf(calls, AdapterOps) = {}
    /\ LET p == processed[Len(processed)]
       IN  /\ posts[p].post_type = "carousel"
           /\ posts[p].status = "failed"
           /\ ~posts[p].is_active
           /\ posts[p].last_executed = now

\* one round of the loop over recent_comments has just been taken
CommentHandled ==
    /\ replyPc = "comments"
    /\ replyPc' = "comments"
    /\ commentQueue # <<>>
    /\ commentQueue' = Tail(commentQueue)

\* C22: when the reply to a comment is to be produced and the content
\* generator does not deliver (it reports a failure or raises), no reply call
\* is made for that comment and the rule's error_count goes up by one.
C22_GeneratorFailureAborts ==
    [][(/\ CommentHandled
        /\ lastDecision'.verdict = "reply"
        /\ lastDecision'.reply # "generated")
       => /\ replyCalls' = replyCalls
          /\ execReplyCalls' = execReplyCalls
          /\ rule'.error_count = rule.error_count + 1
          /\ rule'.success_count = rule.success_count]_vars

\* a due item has just been handled by the loop of process_due_posts
ItemPublished ==
    /\ bulkPc = "tick"
    /\ bulkQueue # <<>>
    /\ bulkQueue' = Tail(bulkQueue)

\* C23: handling a due item raises its publish_attempts by exactly one and
\* stamps last_publish_attempt with the time of the tick, also when the
\* account is disconnected, in which case the item is failed with a message.
C23_AttemptCountedFirst ==
    [][ItemPublished
       => LET i == Head(bulkQueue)
          IN  /\ items'[i].publish_attempts = items[i].publish_attempts + 1
              /\ items'[i].last_publish_attempt = now
              /\ ~account.is_connected =>
                    /\ items'[i].status = "failed"
                    /\ items'[i].error_message # "none"]_vars

Pending(row) == row.is_active /\ row.status \in {"scheduled", "ready"}

\* the step is the handling of post p, and it found no caption or could not
\* resolve the media
FailedBeforeAccount(p) ==
    /\ PostHandled
    /\ Head(dueQueue) = p
    /\ sess[p].prompt \in {None, 0} \/ MediaFailure(sess[p], calls')

\* with the account connected and the loop running from some point on, every
\* post reaches status posted or failed
EventuallyTerminal ==
    <>[](account.is_connected /\ running)
        => <>(\A p \in PostIds : posts[p].status \in TerminalStatus)

\* C25 as stated: while the account is disconnected no step takes a due post
\* out of active/scheduled/ready, and once the account is connected for good
\* and ticks keep running every post reaches a terminal status.
C25_DeferredRetry ==
    /\ [][\A p \in PostIds :
            (Pending(posts[p]) /\ ~account.is_connected) => Pending(posts'[p])]_vars
    /\ EventuallyTerminal

\* C25 for posts whose caption and media are in place: while the account is
\* disconnected a due post leaves active/scheduled/ready only in a handling
\* that found no caption or could not resolve its media; once the account is
\* connected for good and ticks keep running every post reaches a terminal
\* status.
C25_DeferredRetryWithMedia ==
    /\ [][\A p \in PostIds :
            (Pending(posts[p]) /\ ~account.is_connected /\ ~FailedBeforeAccount(p))
                => Pending(posts'[p])]_vars
    /\ EventuallyTerminal

\* the running loop has handled every post of a tick while the account was
\* disconnected, and each of them is left as it was
C25_Witness ==
    /\ running
    /\ loopPc = "posts"
    /\ duePc = "running"
    /\ ~account.is_connected
    /\ Range(processed) = PostIds
    /\ \A p \in PostIds : Pending(posts[p]) /\ posts[p].image_url = "url"

\* the rule has what an execution needs to get to its selected posts
RuleRunnable ==
    /\ rule.is_active
    /\ account.platform = "instagram"
    /\ account.is_connected
    /\ account.access_token # "none"
    /\ rule.selected_instagram_post_ids # <<>>

\* C26: an execution of a runnable rule enters the loop over the selected
\* posts and can only end by writing the current time to last_execution_at,
\* whatever happened to its fetches and replies; last_execution_at is never
\* cleared and never decreases.
C26_WatermarkAdvances ==
    /\ [][(replyPc = "idle" /\ execCount' # execCount /\ RuleRunnable)
            => replyPc' = "posts"]_vars
    /\ [][(replyPc # "idle" /\ replyPc' = "idle")
            => rule'.last_execution_at = now]_vars
    /\ [][rule.last_execution_at # None
            => (/\ rule'.last_execution_at # None
                /\ rule'.last_execution_at >= rule.last_execution_at)]_vars

\* a second execution, later than the first, has just ended; replies have
\* succeeded and failed along the way
C26_Witness ==
    /\ replyPc = "idle"
    /\ execCount = 2
    /\ now > 0
    /\ rule.last_execution_at = now
    /\ rule.success_count >= 1
    /\ rule.error_count >= 1

\* the timestamp of a comment can be read as a time
Parses(c) == c.timestamp \in {"aware", "naive"}

\* C27: within an execution with watermark last_check, a reply call is made
\* only for a comment that is later than the watermark or has no timestamp
\* that parses; and every fetched comment without a parseable timestamp is
\* among the comments that go on to the reply decision.
C27_WatermarkFilter ==
    /\ [][(CommentHandled /\ lastDecision'.verdict = "reply")
            => LET c == Head(commentQueue)
               IN  Parses(c) => c.created > last_check.t]_vars
    /\ [][(replyPc = "posts" /\ replyPc' = "comments")
            => \A c \in comments :
                  (c.post = Head(postQueue) /\ c.created <= now /\ ~Parses(c))
                      => c \in Range(commentQueue')]_vars

\* C28: an engine execution for a rule that is inactive, or whose account is
\* not connected, or that has no selected post ids ends at once: it does not
\* get to the loop in which comments are fetched and answered, makes no
\* reply call, and leaves the rule row (last_execution_at, success_count,
\* error_count) as it was.  Comments are fetched and answered only for an
\* active rule with a connected account and selected posts.
C28_SkippedRuleUntouched ==
    /\ [][(/\ replyPc = "idle"
           /\ execCount' # execCount
           /\ \/ ~rule.is_active
              \/ ~account.is_connected
              \/ rule.selected_instagram_post_ids = <<>>)
          => /\ replyPc' = "idle"
             /\ replyCalls' = replyCalls
             /\ execReplyCalls' = 0
             /\ rule'.last_execution_at = rule.last_execution_at
             /\ rule'.success_count = rule.success_count
             /\ rule'.error_count = rule.error_count]_vars
    /\ [](replyPc # "idle"
            => /\ rule.is_active
               /\ account.is_connected
               /\ rule.selected_instagram_post_ids # <<>>)

\* after an execution that answered a comment, the account was disconnected
\* and a second execution has come and gone without touching the rule
C28_Witness ==
    /\ replyPc = "idle"
    /\ execCount = 2
    /\ ~account.is_connected
    /\ now > 0
    /\ rule.last_execution_at = 0
    /\ rule.success_count = 1
    /\ Cardinality({id \in CommentIds : replyCalls[id] > 0}) = 1

\* C29: a step with a reply call makes exactly one, and it raises exactly one
\* of success_count and error_count by exactly 1: success_count when the
\* adapter accepted the reply, in which case the comment id is entered in the
\* replied cache, and error_count otherwise.  Neither counter ever decreases,
\* and the replied cache only holds ids for which a reply call has succeeded.
C29_ReplyBookkeeping ==
    /\ [][replyCalls' # replyCalls
            => \E id \in CommentIds :
                  /\ replyCalls' = [replyCalls EXCEPT ![id] = @ + 1]
                  /\ IF id \in repliedOk' /\ replied_comments'[id] = now
                     THEN /\ rule'.success_count = rule.success_count + 1
                          /\ rule'.error_count = rule.error_count
                     ELSE /\ rule'.success_count = rule.success_count
                          /\ rule'.error_count = rule.error_count + 1
                          /\ replied_comments'[id] \in {None, replied_comments[id]}]_vars
    /\ [][/\ rule'.success_count >= rule.success_count
          /\ rule'.error_count >= rule.error_count
          /\ rule'.success_count + rule'.error_count
                <= rule.success_count + rule.error_count + 1]_vars
    /\ [](\A id \in CommentIds : replied_comments[id] # None => id \in repliedOk)

\* a comment was answered twice: the first reply call failed, the second was
\* accepted and is in the cache
C29_Witness ==
    /\ rule.success_count = 1
    /\ rule.error_count = 1
    /\ \E id \in CommentIds :
          /\ replyCalls[id] = 2
          /\ id \in repliedOk
          /\ replied_comments[id] = now

C31_ExecutionAfterCreation ==
    created.next_execution # None => created.next_execution > created.now

\* the requested time has passed today, and the stored time is the same
\* time of the next day
C31_Witness ==
    /\ created.next_execution # None
    /\ TodayAt(created.hour, created.minute) < created.now
    /\ created.frequency = "daily"
    /\ created.next_execution = TodayAt(created.hour, created.minute) + timedelta(0, 1, 0)

\* the next occurrence of HH:MM after t: today when still ahead, otherwise
\* one period later
Period(frequency) ==
    CASE frequency = "daily" -> timedelta(0, 1, 0)
      [] frequency = "weekly" -> timedelta(1, 0, 0)
      [] frequency = "monthly" -> timedelta(0, 30, 0)

NextOccurrence(t, hour, minute, frequency) ==
    IF TodayAt(hour, minute) > t
    THEN TodayAt(hour, minute)
    ELSE TodayAt(hour, minute) + Period(frequency)

\* C32: the stored execution time is the next occurrence of the requested
\* HH:MM, however far ahead it lies.
C32_NextOccurrenceStored ==
    created.next_execution # None =>
        created.next_execution =
            NextOccurrence(created.now, created.hour, created.minute, created.frequency)

(***************************************************************************)
(* Properties of overlapping ticks                                         *)
(***************************************************************************)
\* C33: with a triggered tick running while another tick is suspended in an
\* external call, every ScheduledPost is submitted to the adapter at most
\* once, and a status posted is never replaced by failed.
C33_OverlapSafe ==
    /\ [](\A p \in PostIds : submitCount[p] <= 1)
    /\ [][\A p \in PostIds :
            posts[p].status = "posted" => posts'[p].status # "failed"]_vars

(***************************************************************************)
(* Properties of start() and stop()                                        *)
(***************************************************************************)
\* the loops of a scheduler that are in a tick
InTick(loops) == {k \in TaskIds : loops[k] = "tick"}

\* C34: whatever the order of the start() and stop() calls, at most one
\* polling loop of a scheduler is executing a tick at any time.
C34_SingleLoop ==
    /\ Cardinality(InTick(tasks.svc)) <= 1
    /\ Cardinality(InTick(tasks.bulk)) <= 1

\* C35: a comment whose reply call failed in an earlier execution, and that
\* has had no successful reply, is among the comments the next successful
\* fetch of its post hands on to the reply decision: the watermark written
\* at the end of the earlier execution does not filter it out.
C35_NoCommentLost ==
    [][(replyPc = "posts" /\ replyPc' = "comments")
         => \A c \in comments :
               (/\ c.post = Head(postQueue)
                /\ replyCalls[c.id] >= 1
                /\ c.id \notin repliedOk)
                  => c \in Range(commentQueue')]_vars

(***************************************************************************)
(* Properties of deactivated and deleted schedules                         *)
(***************************************************************************)
\* C36: a ScheduledPost that is inactive, or that is no longer in the store,
\* when a tick runs its due query is not selected by it; no step submits it
\* to the adapter, changes its status or makes it active again, also after
\* its scheduled time has passed.
C36_InactiveUntouched ==
    /\ [][\A p \in PostIds :
            IF p \in DOMAIN posts
            THEN ~posts[p].is_active =>
                    /\ submitCount'[p] = submitCount[p]
                    /\ p \in DOMAIN posts' =>
                          /\ posts'[p].status = posts[p].status
                          /\ ~posts'[p].is_active
            ELSE submitCount'[p] = submitCount[p]]_vars
    /\ [](\A p \in dueAtStart : p \in DOMAIN posts)
    /\ [][duePc = "idle" /\ duePc' = "running"
            => \A p \in dueAtStart' : posts[p].is_active]_vars

\* the user has deactivated a schedule that was waiting; its time has
\* passed, and a tick that started afterwards is running without it
C36_Witness ==
    /\ duePc = "running"
    /\ lastRequest.op = "deactivate"
    /\ lastRequest.status = 200
    /\ \E p \in DOMAIN posts :
          /\ posts[p].status = "scheduled"
          /\ ~posts[p].is_active
          /\ posts[p].platform = "instagram"
          /\ posts[p].scheduled_datetime # None
          /\ posts[p].scheduled_datetime <= now
          /\ p \notin dueAtStart
          /\ submitCount[p] = 0

(***************************************************************************)
(* Properties of published bulk items                                      *)
(***************************************************************************)
\* C37: a BulkComposerContent row with status published is in the queue of
\* no main-loop tick and no retry pass, is not handed to publish_post again,
\* and keeps its status, platform post id and publish_attempts in every step.
C37_PublishedIsTerminal ==
    /\ [](\A i \in ItemIds :
            items[i].status = "published" => i \notin Range(bulkQueue))
    /\ [][\A i \in ItemIds :
            items[i].status = "published" =>
                /\ procCount'[i] = procCount[i]
                /\ items'[i].status = "published"
                /\ items'[i].facebook_post_id = items[i].facebook_post_id
                /\ items'[i].publish_attempts = items[i].publish_attempts]_vars

\* a published row whose time has passed, while a retry pass is working on
\* a failed row
C37_Witness ==
    /\ bulkPc = "retry"
    /\ bulkQueue # <<>>
    /\ \E i \in ItemIds :
          /\ items[i].status = "published"
          /\ items[i].scheduled_datetime <= now
          /\ items[i].facebook_post_id # "none"
          /\ procCount[i] >= 1

(***************************************************************************)
(* Properties of the fallback reply                                        *)
(***************************************************************************)
\* C38: the fallback reply text is classified as an AI response by
\* _is_ai_response, for every commenter name.
C38_FallbackIsAiResponse ==
    fallback.classified => fallback.is_ai

\* the fallback reply for a name of full length with an upper case letter
\* and a mention sign in it was classified
C38_Witness ==
    /\ fallback.classified
    /\ fallback.is_ai
    /\ Len(fallback.name) = MaxNameLen
    /\ Contains(fallback.name, <<"T">>)
    /\ Contains(fallback.name, <<"@">>)
    /\ Len(fallback.text) > Len(fallback.name)

(***************************************************************************)
(* Properties of the rate_limit decorator                                  *)
(***************************************************************************)
\* C39: a coroutine that calls a rate-limited function while another one is
\* waiting out the rate limit is never stuck at the shared lock, and every
\* call that waits reaches the wrapped function.
C39_NoDeadlock ==
    /\ [](\A c \in CoIds : rl.pc[c] # "blocked")
    /\ \A c \in CoIds :
          (rl.pc[c] \in {"sleeping", "blocked"}) ~> (rl.pc[c] = "func")

====
